---- MODULE Spec2Model ----
(***************************************************************************)
(* Acquisition-and-retrieval pipeline of IR_Rijwol_Shakya.                 *)
(*                                                                         *)
(*   backend/main.py     query cache (_cache_get/_cache_set) in front of   *)
(*                       the retrieval engine                              *)
(*   crawler/crawler.py  politeness controller, safe_get, Stage 2 workers  *)
(*                       and the merge of main()                           *)
(*                                                                         *)
(* One specification per subsystem; the variables of the other subsystems  *)
(* stay at their initial value.                                            *)
(***************************************************************************)
EXTENDS Integers, Sequences, FiniteSets, TLC

(***************************************************************************)
(* Python dict: insertion-ordered sequence of [k, v] entries.              *)
(***************************************************************************)
None == "None"

DictKeys(d) == {d[i].k : i \in 1..Len(d)}

DictHas(d, key) == key \in DictKeys(d)

DictGet(d, key) ==
  IF DictHas(d, key)
    THEN (d[CHOOSE i \in 1..Len(d) : d[i].k = key]).v
    ELSE None

DictSetAppendAlways(d, key, val) == Append(d, [k |-> key, v |-> val])

DictSetMoveToEnd(d, key, val) ==
  Append(SelectSeq(d, LAMBDA e : e.k # key), [k |-> key, v |-> val])

\* d[key] = val : an existing key keeps its position, a new key goes last
DictSet(d, key, val) ==
  IF DictHas(d, key)
    THEN [i \in 1..Len(d) |-> IF d[i].k = key THEN [k |-> key, v |-> val] ELSE d[i]]
    ELSE Append(d, [k |-> key, v |-> val])

KeepEntry(e, key) == e.k # key

\* d.pop(key, None)
DictPop(d, key) == SelectSeq(d, LAMBDA e : KeepEntry(e, key))

\* list(d.values())
DictValues(d) == [i \in 1..Len(d) |-> d[i].v]

(***************************************************************************)
(* State                                                                   *)
(***************************************************************************)
VARIABLES
  \* backend/main.py
  search_cache,   \* _search_cache: key -> [ts, value]
  wall,           \* time.time()
  ticks,          \* number of clock advances so far
  cacheCall,      \* the last completed _cache_get/_cache_set call
  cpc,            \* per request thread: position in search_publications
  creq,           \* per request thread: key, entry read, oldest key chosen
  requests,       \* number of retrieval requests started so far
  \* crawler/crawler.py, politeness controller and safe_get
  robots_cache,   \* _ROBOTS_CACHE: netloc -> parsed policy
  last_request,   \* _LAST_REQUEST: netloc -> time.monotonic() of the last delay-wait
  robots_lock,    \* _ROBOTS_LOCK: 0 when free, else the worker holding it
  mono,           \* time.monotonic()
  wpc,            \* per worker: position in safe_get
  wloc,           \* per worker: locals of safe_get and its callees
  gets,           \* number of safe_get calls started so far
  \* crawler/crawler.py, main(): Stage 2 and the merge
  listing,        \* result of gather_all_listing_links
  workers_arg,    \* args.workers
  stage,          \* position of main()
  batches,        \* chunk(listing, detail_workers)
  task,           \* per batch: the future of worker_detail_batch
  results,        \* results of main()
  consumed,       \* futures main() has taken from as_completed
  final_rows,     \* the rows written to publications.json
  \* crawler/crawler.py, gather_all_listing_links (Stage 1)
  max_pages,      \* the max_pages argument
  portal,         \* per page index: what scrape_listing_page does on it
  lpc,            \* position of gather_all_listing_links
  page_idx,       \* the loop variable
  all_rows,       \* all_rows
  uniq_rows,      \* the list returned
  \* crawler/crawler.py, wait_for_cloudflare_with_auto_click
  page,           \* what the renderer currently shows
  elapsed,        \* time.time() - start
  cfpc,           \* position of the challenge check of safe_get
  sampled,        \* page_source and page_title read at the top of a poll
  cf_result,      \* what the wait returned and what safe_get did with it
  \* backend/indexer.py, build_inverted_index
  publications,   \* the publications argument
  ipc,            \* position of build_inverted_index
  doc_id,         \* the loop variable
  docs,           \* docs
  doc_len,        \* doc_len
  index,          \* index: term -> [df, postings]
  \* backend/search.py SearchEngine and backend/main.py search_publications
  engine,            \* search_engine: use_index, publications, doc_len, index
  publications_data, \* publications_data, as load_publications returned it
  request,           \* the parameters of the retrieval request
  spc,               \* position of the engine call or of the request
  query,             \* the query SearchEngine.search is called with
  scores,            \* scores of SearchEngine.search: doc id -> accumulated score
  hits,              \* what SearchEngine.search returned
  response,          \* the payload search_publications returned
  locals,            \* locals of search_publications: key, cache hit, results
  served,            \* the requests answered so far, with their payloads
  \* crawler/crawler.py, the author strategies of extract_detail_for_link
  detail             \* position, what each strategy finds, author_objs, authors

cacheVars == <<search_cache, wall, ticks, cacheCall, cpc, creq, requests>>

fetchVars == <<robots_cache, last_request, robots_lock, mono, wpc, wloc, gets>>

crawlVars == <<listing, workers_arg, stage, batches, task, results, consumed,
               final_rows>>

listVars == <<max_pages, portal, lpc, page_idx, all_rows, uniq_rows>>

chalVars == <<page, elapsed, cfpc, sampled, cf_result>>

idxVars == <<publications, ipc, doc_id, docs, doc_len, index>>

searchVars == <<engine, publications_data, request, spc, query, scores, hits, response,
               locals, served>>

detailVars == <<detail>>

vars == <<cacheVars, fetchVars, crawlVars, listVars, chalVars, idxVars, searchVars,
         detailVars>>

\* the variables of the other subsystems
notCache == <<fetchVars, crawlVars, listVars, chalVars, idxVars, searchVars, detailVars>>

notFetch == <<cacheVars, crawlVars, listVars, chalVars, idxVars, searchVars, detailVars>>

notCrawl == <<cacheVars, fetchVars, listVars, chalVars, idxVars, searchVars, detailVars>>

notList == <<cacheVars, fetchVars, crawlVars, chalVars, idxVars, searchVars, detailVars>>

notChal == <<cacheVars, fetchVars, crawlVars, listVars, idxVars, searchVars, detailVars>>

notIdx == <<cacheVars, fetchVars, crawlVars, listVars, chalVars, searchVars, detailVars>>

notSearch == <<cacheVars, fetchVars, crawlVars, listVars, chalVars, idxVars, detailVars>>

\* what a retrieval request leaves alone: it reads and writes _search_cache
notRequest == <<wall, ticks, cacheCall, cpc, creq, requests,
                fetchVars, crawlVars, listVars, chalVars, idxVars, detailVars>>

notDetail == <<cacheVars, fetchVars, crawlVars, listVars, chalVars, idxVars, searchVars>>

(***************************************************************************)
(* Python strings and values.  A str is the sequence of its characters;   *)
(* a value that may be missing, None, a str, a list or a dict carries its  *)
(* kind.                                                                   *)
(***************************************************************************)
UpperAlpha == <<"A", "B", "C", "D", "E", "F", "G", "H", "I", "J", "K", "L", "M", "N", "O", "P", "Q", "R", "S", "T", "U", "V", "W", "X", "Y", "Z">>

LowerAlpha == <<"a", "b", "c", "d", "e", "f", "g", "h", "i", "j", "k", "l", "m", "n", "o", "p", "q", "r", "s", "t", "u", "v", "w", "x", "y", "z">>

DigitChars == <<"0", "1", "2", "3", "4", "5", "6", "7", "8", "9">>

Letters == {LowerAlpha[i] : i \in 1..26}

Digits == {DigitChars[i] : i \in 1..10}

\* the characters \s matches and str.strip() removes
Whitespace == {" "}

LowerChar(c) ==
  IF \E i \in 1..26 : UpperAlpha[i] = c
    THEN LowerAlpha[CHOOSE i \in 1..26 : UpperAlpha[i] = c]
    ELSE c

\* str.lower()
Lower(s) == [i \in 1..Len(s) |-> LowerChar(s[i])]

\* str.lstrip()
LStrip(s) ==
  LET kept == {i \in 1..Len(s) : s[i] \notin Whitespace}
  IN IF kept = {} THEN <<>>
     ELSE SubSeq(s, CHOOSE i \in kept : \A j \in kept : i <= j, Len(s))

\* str.rstrip()
RStrip(s) ==
  LET kept == {i \in 1..Len(s) : s[i] \notin Whitespace}
  IN IF kept = {} THEN <<>>
     ELSE SubSeq(s, 1, CHOOSE i \in kept : \A j \in kept : i >= j)

\* str.strip()
Strip(s) == RStrip(LStrip(s))

\* str.split(): the maximal runs of non-whitespace characters
Split(s) ==
  LET starts == {i \in 1..Len(s) :
                   s[i] \notin Whitespace /\ (i = 1 \/ s[i - 1] \in Whitespace)}
      ends == {i \in 1..Len(s) :
                 s[i] \notin Whitespace /\ (i = Len(s) \/ s[i + 1] \in Whitespace)}
      Nth(set, k) == CHOOSE i \in set : Cardinality({j \in set : j < i}) = k - 1
  IN [k \in 1..Cardinality(starts) |-> SubSeq(s, Nth(starts, k), Nth(ends, k))]

RECURSIVE Join(_)
\* " ".join(words)
Join(words) ==
  IF words = <<>> THEN <<>>
  ELSE IF Len(words) = 1 THEN words[1]
  ELSE words[1] \o <<" ">> \o Join(Tail(words))

\* s in t: s occurs in t as a block of consecutive characters
IsSubstring(s, t) ==
  \E i \in 0..(Len(t) - Len(s)) : \A j \in 1..Len(s) : t[i + j] = s[j]

RECURSIVE IntToStr(_)
\* str(n) for n >= 0
IntToStr(n) ==
  IF n < 10 THEN <<DigitChars[n + 1]>>
  ELSE IntToStr(n \div 10) \o <<DigitChars[(n % 10) + 1]>>

DigitValue(c) == (CHOOSE i \in 1..10 : DigitChars[i] = c) - 1

RECURSIVE StrToInt(_)
\* int(s) for a string of digits
StrToInt(s) ==
  IF Len(s) = 1 THEN DigitValue(s[1])
  ELSE StrToInt(SubSeq(s, 1, Len(s) - 1)) * 10 + DigitValue(s[Len(s)])

PyAbsent == [kind |-> "absent"]

PyNone == [kind |-> "none"]

PyStr(chars) == [kind |-> "str", s |-> chars]

PyList(elems) == [kind |-> "list", elems |-> elems]

\* an author object {"name": ..., "profile": ...}
AuthorObj(name, profile) == [kind |-> "dict", name |-> PyStr(name), profile |-> profile]

\* not v
Falsy(v) ==
  \/ v.kind \in {"absent", "none"}
  \/ v.kind = "str" /\ v.s = <<>>
  \/ v.kind = "list" /\ v.elems = <<>>

\* str(x) and the rendering of x in an f-string
StrOf(x) ==
  CASE x.kind = "str" -> x.s
    [] x.kind = "none" -> <<"N", "o", "n", "e">>
    [] x.kind = "dict" ->
         <<"{", "'", "n", "a", "m", "e", "'", ":", " ", "'">> \o x.name.s \o <<"'", ",", " ", "'", "p", "r", "o", "f", "i", "l", "e", "'", ":", " ">> \o
         (IF x.profile.kind = "none" THEN <<"N", "o", "n", "e">>
          ELSE <<"'">> \o x.profile.s \o <<"'">>) \o <<"}">>
    [] OTHER -> <<>>

(***************************************************************************)
(* Tokenization, backend/indexer.py and backend/search.py preprocess_text  *)
(***************************************************************************)
\* the stopwords of the vocabulary used
STOP == {<<"t", "h", "e">>, <<"o", "f">>, <<"a", "n", "d">>, <<"i", "n">>}

\* PorterStemmer.stem on the vocabulary used: a plural s is removed
STEM(w) ==
  IF Len(w) > 3 /\ w[Len(w)] = "s" /\ w[Len(w) - 1] # "s"
    THEN SubSeq(w, 1, Len(w) - 1)
    ELSE w

\* re.sub(r"[^a-z0-9\s]", " ", text)
SubNonAlnum(s) ==
  [i \in 1..Len(s) |->
     IF s[i] \in Letters \cup Digits \cup Whitespace THEN s[i] ELSE " "]

KeptToken(t) == t \notin STOP /\ Len(t) > 1

\* indexer.preprocess_text: lowercase, strip the other characters,
\* tokenize, drop stopwords and one-character tokens, stem
preprocess_text(text) ==
  IF text = <<>> THEN <<>>
  ELSE LET tokens == SelectSeq(Split(SubNonAlnum(Lower(text))), KeptToken)
       IN [i \in 1..Len(tokens) |-> STEM(tokens[i])]

(***************************************************************************)
(* Query cache, backend/main.py                                            *)
(***************************************************************************)
SEARCH_CACHE_TTL == 60
SEARCH_CACHE_MAX == 3

Keys == {"q1", "q2", "q3", "q4"}
Values == {"r1", "r2"}
MaxTicks == 2
MaxRequests == 4
Threads == {1, 2}

NoCall == [fn |-> "none", key |-> None, ret |-> None, evicted |-> <<>>]
NoEntry == [ts |-> -1, value |-> None]
NoReq == [key |-> None, entry |-> NoEntry, oldest |-> None, hit |-> FALSE, error |-> None]

CacheInit ==
  /\ search_cache = <<>>
  /\ wall = 0
  /\ ticks = 0
  /\ cacheCall = NoCall
  /\ cpc = [t \in Threads |-> "idle"]
  /\ creq = [t \in Threads |-> NoReq]
  /\ requests = 0

ExpiredAtTTL(entry, now) == now - entry.ts >= SEARCH_CACHE_TTL

\* time.time() - entry["ts"] > SEARCH_CACHE_TTL
Expired(entry, now) == now - entry.ts > SEARCH_CACHE_TTL

AtCapacityOffByOne(d) == Len(d) > SEARCH_CACHE_MAX

\* len(_search_cache) >= SEARCH_CACHE_MAX
AtCapacity(d) == Len(d) >= SEARCH_CACHE_MAX

OldestKeyNewest(d) ==
  d[CHOOSE i \in 1..Len(d) : \A j \in 1..Len(d) : d[j].v.ts <= d[i].v.ts].k

\* min(_search_cache.items(), key=lambda item: item[1]["ts"])[0]
\* min returns the first minimal item in iteration order
OldestKey(d) ==
  d[CHOOSE i \in 1..Len(d) :
      /\ \A j \in 1..Len(d) : d[j].v.ts >= d[i].v.ts
      /\ \A j \in 1..(i - 1) : d[j].v.ts > d[i].v.ts].k

\* the clock advances by a second or by a whole TTL
Tick ==
  /\ ticks < MaxTicks
  /\ \E dt \in {1, SEARCH_CACHE_TTL} : wall' = wall + dt
  /\ ticks' = ticks + 1
  /\ UNCHANGED <<search_cache, cacheCall, cpc, creq, requests>>
  /\ UNCHANGED notCache

cache_get_refreshing(key) ==
  LET entry == DictGet(search_cache, key) IN
  /\ IF ~DictHas(search_cache, key)
       THEN /\ cacheCall' = [fn |-> "get", key |-> key, ret |-> None, evicted |-> <<>>]
            /\ UNCHANGED search_cache
       ELSE IF Expired(entry, wall)
         THEN /\ search_cache' = DictPop(search_cache, key)
              /\ cacheCall' = [fn |-> "get", key |-> key, ret |-> None, evicted |-> <<key>>]
         ELSE /\ cacheCall' = [fn |-> "get", key |-> key, ret |-> entry.value, evicted |-> <<>>]
              /\ search_cache' = DictSet(search_cache, key, [entry EXCEPT !.ts = wall])
  /\ UNCHANGED <<wall, ticks, cpc, creq, requests>>
  /\ UNCHANGED notCache

cache_get(key) ==
  LET entry == DictGet(search_cache, key) IN
  /\ IF ~DictHas(search_cache, key)
       THEN /\ cacheCall' = [fn |-> "get", key |-> key, ret |-> None, evicted |-> <<>>]
            /\ UNCHANGED search_cache
       ELSE IF Expired(entry, wall)
         THEN /\ search_cache' = DictPop(search_cache, key)
              /\ cacheCall' = [fn |-> "get", key |-> key, ret |-> None, evicted |-> <<key>>]
         ELSE /\ cacheCall' = [fn |-> "get", key |-> key, ret |-> entry.value, evicted |-> <<>>]
              /\ UNCHANGED search_cache
  /\ UNCHANGED <<wall, ticks, cpc, creq, requests>>
  /\ UNCHANGED notCache

cache_set(key, value) ==
  LET evict == AtCapacity(search_cache)
      oldest == OldestKey(search_cache)
      kept == IF evict THEN DictPop(search_cache, oldest) ELSE search_cache
  IN
  /\ search_cache' = DictSet(kept, key, [ts |-> wall, value |-> value])
  /\ cacheCall' = [fn |-> "set", key |-> key, ret |-> None,
                   evicted |-> IF evict THEN <<oldest>> ELSE <<>>]
  /\ UNCHANGED <<wall, ticks, cpc, creq, requests>>
  /\ UNCHANGED notCache

\* search_engine.search(query): the engine is immutable after startup, so
\* the result stored for a key is a fixed function of it
SearchResult(key) == IF key \in {"q1", "q3"} THEN "r1" ELSE "r2"

CacheGetStep == \E key \in Keys : cache_get(key)
CacheSetStep == \E key \in Keys : cache_set(key, SearchResult(key))

CacheNext == Tick \/ CacheGetStep \/ CacheSetStep

(***************************************************************************)
(* Concurrent retrieval requests: search_publications is a synchronous     *)
(* endpoint, so requests run on pool threads and the statements of         *)
(* _cache_get and _cache_set of different requests interleave.  No lock    *)
(* is taken around _search_cache.                                          *)
(***************************************************************************)
ReqStart(t) ==
  /\ cpc[t] = "idle"
  /\ requests < MaxRequests
  /\ requests' = requests + 1
  /\ \E key \in Keys : creq' = [creq EXCEPT ![t] = [NoReq EXCEPT !.key = key]]
  /\ cpc' = [cpc EXCEPT ![t] = "get_lookup"]
  /\ UNCHANGED <<search_cache, wall, ticks, cacheCall>>
  /\ UNCHANGED notCache

\* entry = _search_cache.get(key); if not entry: return None
ReqGetLookup(t) ==
  /\ cpc[t] = "get_lookup"
  /\ IF DictHas(search_cache, creq[t].key)
       THEN /\ creq' = [creq EXCEPT ![t].entry = DictGet(search_cache, creq[t].key)]
            /\ cpc' = [cpc EXCEPT ![t] = "get_check"]
       ELSE /\ cpc' = [cpc EXCEPT ![t] = "search"]
            /\ UNCHANGED creq
  /\ UNCHANGED <<search_cache, wall, ticks, cacheCall, requests>>
  /\ UNCHANGED notCache

\* if time.time() - entry["ts"] > SEARCH_CACHE_TTL: ... else return entry["value"]
ReqGetCheck(t) ==
  /\ cpc[t] = "get_check"
  /\ IF Expired(creq[t].entry, wall)
       THEN /\ cpc' = [cpc EXCEPT ![t] = "get_pop"]
            /\ UNCHANGED creq
       ELSE /\ cpc' = [cpc EXCEPT ![t] = "respond"]
            /\ creq' = [creq EXCEPT ![t].hit = TRUE]
  /\ UNCHANGED <<search_cache, wall, ticks, cacheCall, requests>>
  /\ UNCHANGED notCache

\* _search_cache.pop(key, None); return None
ReqGetPop(t) ==
  /\ cpc[t] = "get_pop"
  /\ search_cache' = DictPop(search_cache, creq[t].key)
  /\ cpc' = [cpc EXCEPT ![t] = "search"]
  /\ UNCHANGED <<wall, ticks, cacheCall, creq, requests>>
  /\ UNCHANGED notCache

\* results = search_engine.search(query)
ReqSearch(t) ==
  /\ cpc[t] = "search"
  /\ creq' = [creq EXCEPT ![t].entry = [ts |-> -1, value |-> SearchResult(creq[t].key)]]
  /\ cpc' = [cpc EXCEPT ![t] = "set_len"]
  /\ UNCHANGED <<search_cache, wall, ticks, cacheCall, requests>>
  /\ UNCHANGED notCache

\* if len(_search_cache) >= SEARCH_CACHE_MAX:
ReqSetLen(t) ==
  /\ cpc[t] = "set_len"
  /\ cpc' = [cpc EXCEPT ![t] = IF AtCapacity(search_cache) THEN "set_min" ELSE "set_store"]
  /\ UNCHANGED <<search_cache, wall, ticks, cacheCall, creq, requests>>
  /\ UNCHANGED notCache

\* oldest = min(_search_cache.items(), ...): ValueError on an empty dict,
\* which search_publications turns into an error payload
ReqSetMin(t) ==
  /\ cpc[t] = "set_min"
  /\ IF Len(search_cache) = 0
       THEN /\ creq' = [creq EXCEPT ![t].error = "ValueError"]
            /\ cpc' = [cpc EXCEPT ![t] = "respond"]
       ELSE /\ creq' = [creq EXCEPT ![t].oldest = OldestKey(search_cache)]
            /\ cpc' = [cpc EXCEPT ![t] = "set_pop"]
  /\ UNCHANGED <<search_cache, wall, ticks, cacheCall, requests>>
  /\ UNCHANGED notCache

\* _search_cache.pop(oldest[0], None)
ReqSetPop(t) ==
  /\ cpc[t] = "set_pop"
  /\ search_cache' = DictPop(search_cache, creq[t].oldest)
  /\ cpc' = [cpc EXCEPT ![t] = "set_store"]
  /\ UNCHANGED <<wall, ticks, cacheCall, creq, requests>>
  /\ UNCHANGED notCache

\* _search_cache[key] = {"ts": time.time(), "value": value}
ReqSetStore(t) ==
  /\ cpc[t] = "set_store"
  /\ search_cache' = DictSet(search_cache, creq[t].key,
                             [ts |-> wall, value |-> creq[t].entry.value])
  /\ cpc' = [cpc EXCEPT ![t] = "respond"]
  /\ UNCHANGED <<wall, ticks, cacheCall, creq, requests>>
  /\ UNCHANGED notCache

\* filters, sort, pagination and the return of the payload
ReqRespond(t) ==
  /\ cpc[t] = "respond"
  /\ cpc' = [cpc EXCEPT ![t] = "idle"]
  /\ creq' = [creq EXCEPT ![t] = NoReq]
  /\ UNCHANGED <<search_cache, wall, ticks, cacheCall, requests>>
  /\ UNCHANGED notCache

ReqStartStep == \E t \in Threads : ReqStart(t)
ReqGetLookupStep == \E t \in Threads : ReqGetLookup(t)
ReqGetCheckStep == \E t \in Threads : ReqGetCheck(t)
ReqGetPopStep == \E t \in Threads : ReqGetPop(t)
ReqSearchStep == \E t \in Threads : ReqSearch(t)
ReqSetLenStep == \E t \in Threads : ReqSetLen(t)
ReqSetMinStep == \E t \in Threads : ReqSetMin(t)
ReqSetPopStep == \E t \in Threads : ReqSetPop(t)
ReqSetStoreStep == \E t \in Threads : ReqSetStore(t)
ReqRespondStep == \E t \in Threads : ReqRespond(t)

CacheConcNext ==
  \/ Tick
  \/ ReqStartStep
  \/ ReqGetLookupStep
  \/ ReqGetCheckStep
  \/ ReqGetPopStep
  \/ ReqSearchStep
  \/ ReqSetLenStep
  \/ ReqSetMinStep
  \/ ReqSetPopStep
  \/ ReqSetStoreStep
  \/ ReqRespondStep

(***************************************************************************)
(* Politeness controller and safe_get, crawler/crawler.py                  *)
(***************************************************************************)
RETRIES == 2
CRAWL_DELAY == 1

FetchWorkers == {1, 2}
Urls == {"h1/a", "h1/x"}
MaxClock == 3
MaxGets == 2

\* urlparse(url).netloc
netloc(url) == IF url \in {"h1/a", "h1/x"} THEN "h1" ELSE "unknown"

\* what the portal serves as robots.txt: h1/x is disallowed and a
\* crawl-delay of 2 is declared
RobotsTxt(host) ==
  IF host = "h1" THEN [checked |-> TRUE, disallow |-> {"h1/x"}, delay |-> 2]
                 ELSE [checked |-> TRUE, disallow |-> {}, delay |-> 0]

UnparsedPolicy == [checked |-> FALSE, disallow |-> {}, delay |-> 0]

\* rp.parse([]) after a failed fetch: parse() stamps last_checked and
\* leaves no entries
EmptyPolicy == [checked |-> TRUE, disallow |-> {}, delay |-> 0]

\* the ways an attempt can fail after the robots check: a
\* WebDriverException out of driver.get or driver.page_source, or one of
\* the Exceptions raised by the challenge, content-length and redirect checks
RenderErrors == {"WebDriverException", "CheckFailed"}

NoExc == [kind |-> None, attempt |-> -1]

NoLoc == [url |-> None, attempt |-> 0, last_exc |-> NoExc, exc |-> NoExc,
          rp_for |-> None, delay |-> 0, wake |-> 0, result |-> NoExc]

FetchInit ==
  /\ robots_cache = <<>>
  /\ last_request = <<>>
  /\ robots_lock = 0
  /\ mono = 0
  /\ wpc = [w \in FetchWorkers |-> "idle"]
  /\ wloc = [w \in FetchWorkers |-> NoLoc]
  /\ gets = 0

MonoTick ==
  /\ mono < MaxClock
  /\ mono' = mono + 1
  /\ UNCHANGED <<robots_cache, last_request, robots_lock, wpc, wloc, gets>>
  /\ UNCHANGED notFetch

\* a caller (scrape_listing_page, extract_detail_for_link) enters safe_get
SafeGetCall(w) ==
  /\ wpc[w] = "idle"
  /\ gets < MaxGets
  /\ gets' = gets + 1
  /\ \E url \in Urls : wloc' = [wloc EXCEPT ![w] = [NoLoc EXCEPT !.url = url]]
  /\ wpc' = [wpc EXCEPT ![w] = "loop"]
  /\ UNCHANGED <<robots_cache, last_request, robots_lock, mono>>
  /\ UNCHANGED notFetch


\* attempt in range(RETRIES + 1)
InRange(attempt) == attempt <= RETRIES

\* for attempt in range(RETRIES + 1): ... ; if last_exc: raise last_exc
SafeGetLoop(w) ==
  /\ wpc[w] = "loop"
  /\ IF InRange(wloc[w].attempt)
       THEN /\ wloc' = [wloc EXCEPT ![w].rp_for = "allow"]
            /\ wpc' = [wpc EXCEPT ![w] = "rp_acquire"]
       ELSE /\ wloc' = [wloc EXCEPT ![w] =
                          [NoLoc EXCEPT !.url = wloc[w].url,
                                        !.result = IF wloc[w].last_exc # NoExc
                                                     THEN wloc[w].last_exc
                                                     ELSE [kind |-> "returned", attempt |-> -1]]]
            /\ wpc' = [wpc EXCEPT ![w] = "idle"]
  /\ UNCHANGED <<robots_cache, last_request, robots_lock, mono, gets>>
  /\ UNCHANGED notFetch

CachedParserNonEmpty(host) ==
  DictHas(robots_cache, host) /\ DictGet(robots_cache, host) # EmptyPolicy

\* rp = _ROBOTS_CACHE.get(key); if rp: a RobotFileParser defines neither
\* __bool__ nor __len__, so every cached parser is true
CachedParser(host) == DictHas(robots_cache, host)

\* _get_robot_parser: with _ROBOTS_LOCK: rp = _ROBOTS_CACHE.get(key); if rp: return rp
GetRobotParserLock(w) ==
  /\ wpc[w] = "rp_acquire"
  /\ robots_lock = 0
  /\ IF CachedParser(netloc(wloc[w].url))
       THEN /\ wpc' = [wpc EXCEPT ![w] =
                         IF wloc[w].rp_for = "allow" THEN "allow_check" ELSE "rcd_delay"]
            /\ UNCHANGED robots_lock
       ELSE /\ robots_lock' = w
            /\ wpc' = [wpc EXCEPT ![w] = "rp_fetch"]
  /\ UNCHANGED <<robots_cache, last_request, mono, wloc, gets>>
  /\ UNCHANGED notFetch

\* body = _fetch_robots_txt(robots_url); rp.parse(...); _ROBOTS_CACHE[key] = rp
\* all inside the with block; the fetch fails (None) or returns the file
GetRobotParserFetch(w) ==
  /\ wpc[w] = "rp_fetch"
  /\ robots_lock = w
  /\ \E policy \in {EmptyPolicy, RobotsTxt(netloc(wloc[w].url))} :
       robots_cache' = DictSet(robots_cache, netloc(wloc[w].url), policy)
  /\ robots_lock' = 0
  /\ wpc' = [wpc EXCEPT ![w] =
               IF wloc[w].rp_for = "allow" THEN "allow_check" ELSE "rcd_delay"]
  /\ UNCHANGED <<last_request, mono, wloc, gets>>
  /\ UNCHANGED notFetch

\* rp.can_fetch(USER_AGENT, url): False for a parser that never parsed
\* (last_checked unset), else no matching Disallow line
robots_allow(url) ==
  LET rp == DictGet(robots_cache, netloc(url)) IN
  rp.checked /\ url \notin rp.disallow

\* delay = rp.crawl_delay(USER_AGENT); float(delay) if delay else 0.0
robots_delay(url) ==
  LET rp == DictGet(robots_cache, netloc(url)) IN
  IF rp.checked THEN rp.delay ELSE 0

SafeGetAllowIgnoringRobots(w) ==
  /\ wpc[w] = "allow_check"
  /\ wloc' = [wloc EXCEPT ![w].rp_for = "delay"]
  /\ wpc' = [wpc EXCEPT ![w] = "rp_acquire"]
  /\ UNCHANGED <<robots_cache, last_request, robots_lock, mono, gets>>
  /\ UNCHANGED notFetch

\* if not _robots_allow(url): raise Exception("Blocked by robots.txt rules")
SafeGetAllow(w) ==
  /\ wpc[w] = "allow_check"
  /\ IF robots_allow(wloc[w].url)
       THEN /\ wloc' = [wloc EXCEPT ![w].rp_for = "delay"]
            /\ wpc' = [wpc EXCEPT ![w] = "rp_acquire"]
       ELSE /\ wloc' = [wloc EXCEPT ![w].exc =
                          [kind |-> "robots", attempt |-> wloc[w].attempt]]
            /\ wpc' = [wpc EXCEPT ![w] = "except"]
  /\ UNCHANGED <<robots_cache, last_request, robots_lock, mono, gets>>
  /\ UNCHANGED notFetch

MinOf(a, b) == IF a < b THEN a ELSE b

MaxOf(a, b) == IF a > b THEN a ELSE b

CrawlDelayIgnoringRobots(url) == CRAWL_DELAY

\* max(CRAWL_DELAY, _robots_delay(url))
CrawlDelayFor(url) == MaxOf(CRAWL_DELAY, robots_delay(url))

\* delay = max(CRAWL_DELAY, _robots_delay(url)); if delay <= 0: return
RespectDelay(w) ==
  /\ wpc[w] = "rcd_delay"
  /\ LET delay == CrawlDelayFor(wloc[w].url) IN
     /\ wloc' = [wloc EXCEPT ![w].delay = delay]
     /\ wpc' = [wpc EXCEPT ![w] = IF delay <= 0 THEN "request" ELSE "rcd_acquire"]
  /\ UNCHANGED <<robots_cache, last_request, robots_lock, mono, gets>>
  /\ UNCHANGED notFetch

\* with _ROBOTS_LOCK: last = _LAST_REQUEST.get(netloc); now = time.monotonic()
\* wait = delay - (now - last); if wait > 0: time.sleep(wait)
RespectLock(w) ==
  /\ wpc[w] = "rcd_acquire"
  /\ robots_lock = 0
  /\ robots_lock' = w
  /\ LET host == netloc(wloc[w].url)
         wait == IF DictHas(last_request, host)
                   THEN wloc[w].delay - (mono - DictGet(last_request, host))
                   ELSE 0
     IN IF wait > 0
          THEN /\ wloc' = [wloc EXCEPT ![w].wake = mono + wait]
               /\ wpc' = [wpc EXCEPT ![w] = "rcd_sleep"]
          ELSE /\ wpc' = [wpc EXCEPT ![w] = "rcd_store"]
               /\ UNCHANGED wloc
  /\ UNCHANGED <<robots_cache, last_request, mono, gets>>
  /\ UNCHANGED notFetch

\* time.sleep(wait) returns, the lock still held
RespectSleep(w) ==
  /\ wpc[w] = "rcd_sleep"
  /\ mono >= wloc[w].wake
  /\ wpc' = [wpc EXCEPT ![w] = "rcd_store"]
  /\ UNCHANGED <<robots_cache, last_request, robots_lock, mono, wloc, gets>>
  /\ UNCHANGED notFetch

\* _LAST_REQUEST[netloc] = time.monotonic(), end of the with block
RespectStore(w) ==
  /\ wpc[w] = "rcd_store"
  /\ robots_lock = w
  /\ LET host == netloc(wloc[w].url) IN
     last_request' = DictSet(last_request, host, mono)
  /\ robots_lock' = 0
  /\ wpc' = [wpc EXCEPT ![w] = "request"]
  /\ UNCHANGED <<robots_cache, mono, wloc, gets>>
  /\ UNCHANGED notFetch

\* pacing sleep, driver.get(url), challenge wait, content and redirect
\* checks: the attempt passes or one of them raises
SafeGetRequest(w) ==
  /\ wpc[w] = "request"
  /\ \/ /\ wloc' = [wloc EXCEPT ![w] =
                          [NoLoc EXCEPT !.url = wloc[w].url,
                                        !.result = [kind |-> "ok",
                                                    attempt |-> wloc[w].attempt]]]
        /\ wpc' = [wpc EXCEPT ![w] = "idle"]
     \/ \E kind \in RenderErrors :
          /\ wloc' = [wloc EXCEPT ![w].exc = [kind |-> kind, attempt |-> wloc[w].attempt]]
          /\ wpc' = [wpc EXCEPT ![w] = "except"]
  /\ UNCHANGED <<robots_cache, last_request, robots_lock, mono, gets>>
  /\ UNCHANGED notFetch

KeepFirstExc(last, exc) == IF last = NoExc THEN exc ELSE last

\* last_exc = exc
CaughtExc(last, exc) == exc

\* except Exception as exc: last_exc = exc; if attempt < RETRIES: backoff
SafeGetExcept(w) ==
  /\ wpc[w] = "except"
  /\ wloc' = [wloc EXCEPT ![w].last_exc = CaughtExc(wloc[w].last_exc, wloc[w].exc),
                          ![w].exc = NoExc,
                          ![w].attempt = IF wloc[w].attempt < RETRIES THEN @ ELSE @ + 1]
  /\ wpc' = [wpc EXCEPT ![w] = IF wloc[w].attempt < RETRIES THEN "backoff" ELSE "loop"]
  /\ UNCHANGED <<robots_cache, last_request, robots_lock, mono, gets>>
  /\ UNCHANGED notFetch

\* time.sleep(RETRY_DELAY * (attempt + 1) * random.uniform(1.5, 2.5))
SafeGetBackoff(w) ==
  /\ wpc[w] = "backoff"
  /\ wloc' = [wloc EXCEPT ![w].attempt = @ + 1]
  /\ wpc' = [wpc EXCEPT ![w] = "loop"]
  /\ UNCHANGED <<robots_cache, last_request, robots_lock, mono, gets>>
  /\ UNCHANGED notFetch

SafeGetCallStep == \E w \in FetchWorkers : SafeGetCall(w)
SafeGetLoopStep == \E w \in FetchWorkers : SafeGetLoop(w)
GetRobotParserLockStep == \E w \in FetchWorkers : GetRobotParserLock(w)
GetRobotParserFetchStep == \E w \in FetchWorkers : GetRobotParserFetch(w)
SafeGetAllowStep == \E w \in FetchWorkers : SafeGetAllow(w)
RespectDelayStep == \E w \in FetchWorkers : RespectDelay(w)
RespectLockStep == \E w \in FetchWorkers : RespectLock(w)
RespectSleepStep == \E w \in FetchWorkers : RespectSleep(w)
RespectStoreStep == \E w \in FetchWorkers : RespectStore(w)
SafeGetRequestStep == \E w \in FetchWorkers : SafeGetRequest(w)
SafeGetExceptStep == \E w \in FetchWorkers : SafeGetExcept(w)
SafeGetBackoffStep == \E w \in FetchWorkers : SafeGetBackoff(w)

FetchNext ==
  \/ MonoTick
  \/ SafeGetCallStep
  \/ SafeGetLoopStep
  \/ GetRobotParserLockStep
  \/ GetRobotParserFetchStep
  \/ SafeGetAllowStep
  \/ RespectDelayStep
  \/ RespectLockStep
  \/ RespectSleepStep
  \/ RespectStoreStep
  \/ SafeGetRequestStep
  \/ SafeGetExceptStep
  \/ SafeGetBackoffStep

(***************************************************************************)
(* Challenge check of safe_get and wait_for_cloudflare_with_auto_click,    *)
(* crawler/crawler.py                                                      *)
(***************************************************************************)
CHALLENGE_TIMEOUT == 45

\* what a page can show: "cloudflare" in its source or its title, the
\* interstitial phrases "just a moment" and "checking your browser" in its
\* source, an element with id challenge-form
Features == {"cf_body", "cf_title", "moment", "checking", "form"}

\* the features read from driver.page_source and driver.title
SourceAndTitle == {"cf_body", "cf_title", "moment", "checking"}

NoResult == [wait |-> None, attempt |-> None]

ChalInit ==
  /\ page \in SUBSET Features
  /\ elapsed = 0
  /\ cfpc = "check"
  /\ sampled = {}
  /\ cf_result = NoResult

\* the page changes under the renderer: the challenge resolves, reloads or
\* gives way to the portal page
PageChange ==
  /\ cfpc \in {"loop_top", "poll", "interstitial", "form_check"}
  /\ page' \in SUBSET Features
  /\ page' # page
  /\ UNCHANGED <<elapsed, cfpc, sampled, cf_result>>
  /\ UNCHANGED notChal

\* safe_get: if "cloudflare" in page_source or "cloudflare" in page_title
\*           or "just a moment" in page_source: wait_for_cloudflare...(timeout=45)
\* driver.page_source may raise, which fails the attempt
SafeGetChallengeCheck ==
  /\ cfpc = "check"
  /\ \/ /\ sampled' = page \cap SourceAndTitle
        /\ IF sampled' \cap {"cf_body", "cf_title", "moment"} # {}
             THEN /\ cfpc' = "loop_top"
                  /\ UNCHANGED cf_result
             ELSE /\ cfpc' = "done"
                  /\ cf_result' = [wait |-> "not_called", attempt |-> "continues"]
     \/ /\ cfpc' = "done"
        /\ cf_result' = [wait |-> "not_called", attempt |-> "failed"]
        /\ UNCHANGED sampled
  /\ UNCHANGED <<page, elapsed>>
  /\ UNCHANGED notChal

\* while time.time() - start < timeout: ... ; after the loop: return False,
\* and safe_get raises "Cloudflare challenge not completed"
WaitLoopTop ==
  /\ cfpc = "loop_top"
  /\ IF elapsed < CHALLENGE_TIMEOUT
       THEN /\ cfpc' = "poll"
            /\ UNCHANGED cf_result
       ELSE /\ cfpc' = "done"
            /\ cf_result' = [wait |-> "False", attempt |-> "failed"]
  /\ UNCHANGED <<page, elapsed, sampled>>
  /\ UNCHANGED notChal

SampleClearBodyOnly(s) == "cf_body" \notin s

\* "cloudflare" not in page_source and "cloudflare" not in page_title
SampleClear(s) == s \cap {"cf_body", "cf_title"} = {}

\* top of a poll: page_source and title are read (the read may raise, the
\* outer except returns False); without "cloudflare" in either: return True
WaitPoll ==
  /\ cfpc = "poll"
  /\ \/ /\ sampled' = page \cap SourceAndTitle
        /\ IF SampleClear(sampled')
             THEN /\ cfpc' = "done"
                  /\ cf_result' = [wait |-> "True", attempt |-> "continues"]
             ELSE /\ cfpc' = "interstitial"
                  /\ UNCHANGED cf_result
     \/ /\ cfpc' = "done"
        /\ cf_result' = [wait |-> "False", attempt |-> "failed"]
        /\ UNCHANGED sampled
  /\ UNCHANGED <<page, elapsed>>
  /\ UNCHANGED notChal

\* the auto-click attempts (errors swallowed; sleep(1) and sleep(2) when a
\* challenge frame is clicked), then
\* if "just a moment" in page_source or "checking your browser" in page_source:
\*     time.sleep(2); continue
WaitInterstitial ==
  /\ cfpc = "interstitial"
  /\ \E click \in {0, 3} :
       IF sampled \cap {"moment", "checking"} # {}
         THEN /\ elapsed' = elapsed + click + 2
              /\ cfpc' = "loop_top"
         ELSE /\ elapsed' = elapsed + click
              /\ cfpc' = "form_check"
  /\ UNCHANGED <<page, sampled, cf_result>>
  /\ UNCHANGED notChal

\* if driver.find_elements(By.ID, "challenge-form"): time.sleep(2); continue
\* else: "Challenge appears complete": time.sleep(1); return True
\* find_elements may raise, the outer except returns False
WaitFormCheck ==
  /\ cfpc = "form_check"
  /\ \/ IF "form" \in page
          THEN /\ sampled' = sampled \cup {"form"}
               /\ elapsed' = elapsed + 2
               /\ cfpc' = "loop_top"
               /\ UNCHANGED cf_result
          ELSE /\ elapsed' = elapsed + 1
               /\ cfpc' = "done"
               /\ cf_result' = [wait |-> "True", attempt |-> "continues"]
               /\ UNCHANGED sampled
     \/ /\ cfpc' = "done"
        /\ cf_result' = [wait |-> "False", attempt |-> "failed"]
        /\ UNCHANGED <<sampled, elapsed>>
  /\ UNCHANGED page
  /\ UNCHANGED notChal

ChalNext ==
  \/ PageChange
  \/ SafeGetChallengeCheck
  \/ WaitLoopTop
  \/ WaitPoll
  \/ WaitInterstitial
  \/ WaitFormCheck

(***************************************************************************)
(* Stage 1, crawler/crawler.py gather_all_listing_links                    *)
(***************************************************************************)
MaxPages == 2
MaxContainers == 2

\* the .result-container elements a listing page can show: the text and
\* the href of its h3.title a (an empty text when the anchor has none)
Containers ==
  { [title |-> "ta", link |-> "l1"], [title |-> "tb", link |-> "l1"],
    [title |-> "ta", link |-> "l2"], [title |-> "", link |-> "l2"] }

ContainerLists ==
  UNION { [1..n -> Containers] : n \in 0..MaxContainers }

\* what scrape_listing_page does on a page: safe_get raises after its
\* retries, or the page loads and its containers are read
PageOutcomes ==
  { [ok |-> FALSE, containers |-> <<>>] } \cup
  { [ok |-> TRUE, containers |-> cs] : cs \in ContainerLists }

ListIdle ==
  /\ max_pages = 0
  /\ portal = <<>>
  /\ lpc = "not_called"
  /\ page_idx = 0
  /\ all_rows = <<>>
  /\ uniq_rows = <<>>

ListInit ==
  /\ max_pages \in 0..MaxPages
  /\ portal = <<>>
  /\ lpc = "called"
  /\ page_idx = 0
  /\ all_rows = <<>>
  /\ uniq_rows = <<>>

HasTitleAndLink(c) == c.title # "" /\ c.link # ""

\* rows of scrape_listing_page: if title and link: rows.append(...)
Harvest(containers) == SelectSeq(containers, HasTitleAndLink)

NextPageIdxBreak(idx) == max_pages

\* continue: the for loop goes on with the next page index
NextPageIdx(idx) == idx + 1

\* driver = make_driver(...), outside the try: it returns a driver or raises
GatherStart ==
  /\ lpc = "called"
  /\ lpc' \in {"loop", "raised"}
  /\ UNCHANGED <<max_pages, portal, page_idx, all_rows, uniq_rows>>
  /\ UNCHANGED notList

\* one iteration of for page_idx in range(max_pages): the page is scraped
\* and its rows are appended, or the except branch logs it and continues
ListPage ==
  /\ lpc = "loop"
  /\ page_idx < max_pages
  /\ \E outcome \in PageOutcomes :
       /\ portal' = Append(portal, outcome)
       /\ IF outcome.ok
            THEN /\ all_rows' = all_rows \o Harvest(outcome.containers)
                 /\ page_idx' = page_idx + 1
            ELSE /\ all_rows' = all_rows
                 /\ page_idx' = NextPageIdx(page_idx)
  /\ UNCHANGED <<max_pages, lpc, uniq_rows>>
  /\ UNCHANGED notList

RECURSIVE UniqLastWins(_, _)
\* for r in all_rows: uniq[r["link"]] = r
UniqLastWins(uniq, rows) ==
  IF rows = <<>> THEN uniq
  ELSE UniqLastWins(DictSet(uniq, Head(rows).link, Head(rows)), Tail(rows))

\* the loop is over: driver.quit(), deduplicate, return list(uniq.values())
GatherReturn ==
  /\ lpc = "loop"
  /\ page_idx >= max_pages
  /\ uniq_rows' = DictValues(UniqLastWins(<<>>, all_rows))
  /\ lpc' = "returned"
  /\ UNCHANGED <<max_pages, portal, page_idx, all_rows>>
  /\ UNCHANGED notList

ListNext == GatherStart \/ ListPage \/ GatherReturn

(***************************************************************************)
(* Stage 2 and the merge, crawler/crawler.py main()                        *)
(***************************************************************************)
MaxItems == 5
MaxWorkers == 3

Links == <<"l1", "l2", "l3", "l4", "l5", "l6">>

\* the title Stage 1 harvested for a link, and the h1 of its detail page
StubTitle(link) == <<"listing", link>>
PageTitle(link) == <<"h1", link>>

\* {"title": ..., "link": ...} rows of the deduplicated listing
ListingOf(n) == [i \in 1..n |-> [title |-> StubTitle(Links[i]), link |-> Links[i]]]

NoTask == [status |-> "queued", i |-> 0, out |-> <<>>, driver |-> "none",
           errs |-> {}]

CrawlInit ==
  /\ \E n \in 0..MaxItems : listing = ListingOf(n)
  /\ workers_arg \in 0..MaxWorkers
  /\ stage = "stage1_done"
  /\ batches = <<>>
  /\ task = <<>>
  /\ results = <<>>
  /\ consumed = {}
  /\ final_rows = <<>>

\* ceil(a / b) for b > 0
CeilDiv(a, b) == (a + b - 1) \div b

\* items[i : i + size]
Slice(items, from, size) ==
  [j \in 1..MinOf(size, Len(items) - from) |-> items[from + j]]

ChunkNoMinSize(items, n) ==
  IF n <= 1 THEN <<items>>
  ELSE LET size == MaxOf(1, CeilDiv(Len(items), n * 2)) IN
       [b \in 1..CeilDiv(Len(items), size) |-> Slice(items, (b - 1) * size, size)]

ChunkDropTail(items, n) ==
  IF n <= 1 THEN <<items>>
  ELSE LET size == MaxOf(2, CeilDiv(Len(items), n * 2)) IN
       [b \in 1..(Len(items) \div size) |-> Slice(items, (b - 1) * size, size)]

\* chunk(): size = max(2, ceil(len(items) / (n * 2)));
\* [items[i : i + size] for i in range(0, len(items), size)]
Chunk(items, n) ==
  IF n <= 1 THEN <<items>>
  ELSE LET size == MaxOf(2, CeilDiv(Len(items), n * 2)) IN
       [b \in 1..CeilDiv(Len(items), size) |-> Slice(items, (b - 1) * size, size)]

\* detail_workers = max(1, min(args.workers, len(listing)))
DetailWorkers == MaxOf(1, MinOf(workers_arg, Len(listing)))

\* if not listing: return; else the listing is saved, chunked and every
\* batch is submitted to the executor
MainStage2 ==
  /\ stage = "stage1_done"
  /\ IF Len(listing) = 0
       THEN /\ stage' = "no_listing"
            /\ UNCHANGED <<batches, task>>
       ELSE /\ stage' = "collect"
            /\ batches' = Chunk(listing, DetailWorkers)
            /\ task' = [b \in 1..Len(Chunk(listing, DetailWorkers)) |-> NoTask]
  /\ UNCHANGED <<listing, workers_arg, results, consumed, final_rows>>
  /\ UNCHANGED notCrawl

Running == {b \in 1..Len(task) : task[b].status = "running"}

\* a pool thread takes the next queued batch: driver = make_driver(...),
\* outside the try of worker_detail_batch. make_driver returns the session,
\* or raises before the browser exists, or raises after it was started
\* (set_page_load_timeout, implicitly_wait and stealth stand outside any
\* try); a raise fails the future and nothing quits the started browser
TaskStart(b) ==
  /\ task[b].status = "queued"
  /\ Cardinality(Running) < DetailWorkers
  /\ \A c \in 1..(b - 1) : task[c].status # "queued"
  /\ \/ task' = [task EXCEPT ![b].status = "running", ![b].driver = "open"]
     \/ task' = [task EXCEPT ![b].status = "failed"]
     \/ task' = [task EXCEPT ![b].status = "failed", ![b].driver = "open"]
  /\ UNCHANGED <<listing, workers_arg, stage, batches, results, consumed, final_rows>>
  /\ UNCHANGED notCrawl

\* what extract_detail_for_link returns: the h1 title or the hint, and
\* whatever the fallback chains found (published_date stays None and the
\* abstract "" when nothing is found)
DetailRecords(it) ==
  { [title |-> PageTitle(it.link), link |-> it.link, authors |-> <<"A">>,
     published_date |-> "2020", abstract |-> "text"],
    [title |-> it.title, link |-> it.link, authors |-> <<>>,
     published_date |-> None, abstract |-> ""] }

MinimalRecordNoTitle(it) ==
  [title |-> <<>>, link |-> it.link, authors |-> <<>>,
   published_date |-> None, abstract |-> ""]

\* the record appended in the except branch of worker_detail_batch
MinimalRecord(it) ==
  [title |-> it.title, link |-> it.link, authors |-> <<>>,
   published_date |-> None, abstract |-> ""]

\* one iteration of the loop of worker_detail_batch: the extraction
\* returns a record or raises, and the except branch appends a minimal one
TaskItem(b) ==
  /\ task[b].status = "running"
  /\ task[b].i < Len(batches[b])
  /\ LET it == batches[b][task[b].i + 1] IN
     \/ \E rec \in DetailRecords(it) :
          task' = [task EXCEPT ![b].i = @ + 1, ![b].out = Append(@, rec)]
     \/ task' = [task EXCEPT ![b].i = @ + 1,
                             ![b].out = Append(@, MinimalRecord(it)),
                             ![b].errs = @ \cup {task[b].i + 1}]
  /\ UNCHANGED <<listing, workers_arg, stage, batches, results, consumed, final_rows>>
  /\ UNCHANGED notCrawl

\* finally: driver.quit(); return out
TaskFinish(b) ==
  /\ task[b].status = "running"
  /\ task[b].i = Len(batches[b])
  /\ task' = [task EXCEPT ![b].status = "done", ![b].driver = "quit"]
  /\ UNCHANGED <<listing, workers_arg, stage, batches, results, consumed, final_rows>>
  /\ UNCHANGED notCrawl

\* for fut in as_completed(futs): part = fut.result() or []; results.extend(part)
\* fut.result() re-raises the exception of a failed future and main() ends
MainCollect(b) ==
  /\ stage = "collect"
  /\ b \notin consumed
  /\ task[b].status \in {"done", "failed"}
  /\ consumed' = consumed \cup {b}
  /\ IF task[b].status = "failed"
       THEN /\ stage' = "crashed"
            /\ UNCHANGED results
       ELSE /\ results' = results \o task[b].out
            /\ stage' = IF consumed' = 1..Len(task) THEN "merge" ELSE "collect"
  /\ UNCHANGED <<listing, workers_arg, batches, task, final_rows>>
  /\ UNCHANGED notCrawl

RECURSIVE SetAll(_, _, _)
\* for r in rows: by_link[r["link"]] = <stub of r or r itself>
SetAll(d, rows, stubOnly) ==
  IF rows = <<>> THEN d
  ELSE LET r == Head(rows)
           val == IF stubOnly THEN [title |-> r.title, link |-> r.link] ELSE r
       IN SetAll(DictSet(d, r.link, val), Tail(rows), stubOnly)

MergeStubWins(stubs, details) ==
  DictValues(SetAll(SetAll(<<>>, details, FALSE), stubs, TRUE))

\* by_link from the listing stubs, then overwritten by the detail results;
\* final_rows = list(by_link.values())
Merge(stubs, details) == DictValues(SetAll(SetAll(<<>>, stubs, TRUE), details, FALSE))

\* merge and write publications.json
MainMerge ==
  /\ stage = "merge"
  /\ final_rows' = Merge(listing, results)
  /\ stage' = "written"
  /\ UNCHANGED <<listing, workers_arg, batches, task, results, consumed>>
  /\ UNCHANGED notCrawl

TaskStartStep == \E b \in 1..Len(task) : TaskStart(b)
TaskItemStep == \E b \in 1..Len(task) : TaskItem(b)
TaskFinishStep == \E b \in 1..Len(task) : TaskFinish(b)
MainCollectStep == \E b \in 1..Len(task) : MainCollect(b)

CrawlNext ==
  \/ MainStage2
  \/ TaskStartStep
  \/ TaskItemStep
  \/ TaskFinishStep
  \/ MainCollectStep
  \/ MainMerge

(***************************************************************************)
(* Record normalization and build_inverted_index, backend/indexer.py       *)
(***************************************************************************)
MaxDocs == 2

NonBlank(x) == Strip(StrOf(x)) # <<>>

\* _ensure_list_of_authors
ensure_list_of_authors(v) ==
  IF Falsy(v) THEN PyList(<<>>)
  ELSE IF v.kind = "list"
    THEN IF v.elems[1].kind = "dict" /\ "name" \in DOMAIN v.elems[1]
           THEN v
           ELSE LET kept == SelectSeq(v.elems, NonBlank) IN
                PyList([i \in 1..Len(kept) |-> AuthorObj(Strip(StrOf(kept[i])), PyNone)])
    ELSE PyList(<<AuthorObj(Strip(StrOf(v)), PyNone)>>)

\* _normalize_record: a or b or ""
normalize_record(r) ==
  LET date_val == IF ~Falsy(r.date) THEN r.date
                  ELSE IF ~Falsy(r.published_date) THEN r.published_date
                  ELSE PyStr(<<>>)
      authors == ensure_list_of_authors(r.authors)
      abstract == IF Falsy(r.abstract) THEN PyStr(<<>>) ELSE r.abstract
  IN [r EXCEPT !.published_date = date_val, !.authors = authors, !.abstract = abstract]

\* a value of pub.get(key, "") as an f-string renders it
Rendered(v) == IF v.kind = "absent" THEN <<>> ELSE StrOf(v)

\* author.get("name", "") if isinstance(author, dict) else str(author)
AuthorText(a) ==
  IF a.kind = "dict"
    THEN (IF "name" \in DOMAIN a THEN Rendered(a.name) ELSE <<>>)
    ELSE StrOf(a)

\* f"{title} {authors_text} {abstract}"
DocText(pub) ==
  LET names == [i \in 1..Len(pub.authors.elems) |-> AuthorText(pub.authors.elems[i])]
  IN Rendered(pub.title) \o <<" ">> \o Join(names) \o <<" ">> \o Rendered(pub.abstract)

DocTokens(pub) == preprocess_text(DocText(pub))

\* max(1, len(tokens))
DocLenOf(tokens) == IF Len(tokens) > 1 THEN Len(tokens) ELSE 1

\* the count Counter(tokens) holds for a token
CountOf(tokens, t) == Cardinality({i \in 1..Len(tokens) : tokens[i] = t})

\* the keys of Counter(tokens): the distinct tokens, first occurrence first
DistinctTokens(tokens) ==
  LET firsts == {i \in 1..Len(tokens) : \A j \in 1..(i - 1) : tokens[j] # tokens[i]}
      IsFirst(i) == i \in firsts
      idx == SelectSeq([i \in 1..Len(tokens) |-> i], IsFirst)
  IN [k \in 1..Len(idx) |-> tokens[idx[k]]]

PostingKeyOneBased(id) == IntToStr(id + 1)

\* str(doc_id)
PostingKey(id) == IntToStr(id)

NewEntry == [df |-> 0, postings |-> <<>>]

\* for term, tf in counts.items(): entry = index.get(term) or a new entry;
\* entry["postings"][str(doc_id)] = tf.  The entries the index has keep their
\* place, the new terms follow in the order of counts.
AddPostings(idx, terms, tokens, id) ==
  LET Counted(t) == \E j \in 1..Len(terms) : terms[j] = t
      Posted(entry, t) ==
        [entry EXCEPT !.postings = DictSet(@, PostingKey(id), CountOf(tokens, t))]
      IsNew(t) == ~DictHas(idx, t)
      fresh == SelectSeq(terms, IsNew)
  IN [i \in 1..Len(idx) |->
        IF Counted(idx[i].k) THEN [k |-> idx[i].k, v |-> Posted(idx[i].v, idx[i].k)]
        ELSE idx[i]]
     \o [j \in 1..Len(fresh) |-> [k |-> fresh[j], v |-> Posted(NewEntry, fresh[j])]]

DfCountsOccurrences(entry) ==
  LET RECURSIVE Sum(_)
      Sum(ps) == IF ps = <<>> THEN 0 ELSE Head(ps).v + Sum(Tail(ps))
  IN Sum(entry.postings)

\* len(entry["postings"])
DfOf(entry) == Len(entry.postings)

\* the records build_inverted_index is run on
IndexTitles == {PyStr(<<"G", "r", "a", "p", "h", "s">>), PyStr(<<"T", "h", "e">>), PyStr(<<"N", "e", "t", "s", " ", "o", "f", " ", "g", "r", "a", "p", "h", "s">>)}

IndexAuthors ==
  { PyAbsent,
    PyList(<<AuthorObj(<<"B", "o", "b", " ", "G", "r", "a", "p", "h", "s">>, PyNone)>>),
    PyList(<<PyStr(<<"A", "n", "n", " ", "N", "e", "t">>), PyStr(<<" ">>)>>) }

IndexAbstracts == {PyNone, PyStr(<<"N", "e", "t", "s", " ", "a", "n", "d", " ", "g", "r", "a", "p", "h", "s", " ", "i", "n", " ", "n", "e", "t", "s">>)}

IndexRecords ==
  { [title |-> t, link |-> PyStr(<<"l">>), authors |-> a, abstract |-> ab,
     date |-> PyAbsent, published_date |-> PyAbsent] :
      t \in IndexTitles, a \in IndexAuthors, ab \in IndexAbstracts }

IdxInit ==
  /\ publications \in UNION {[1..n -> IndexRecords] : n \in 0..MaxDocs}
  /\ ipc = "called"
  /\ doc_id = 0
  /\ docs = <<>>
  /\ doc_len = <<>>
  /\ index = <<>>

\* build_inverted_index not called
IdxIdle ==
  /\ publications = <<>>
  /\ ipc = "not_called"
  /\ doc_id = 0
  /\ docs = <<>>
  /\ doc_len = <<>>
  /\ index = <<>>

\* docs = [_normalize_record(p) for p in publications]
IndexNormalize ==
  /\ ipc = "called"
  /\ docs' = [i \in 1..Len(publications) |-> normalize_record(publications[i])]
  /\ ipc' = "loop"
  /\ UNCHANGED <<publications, doc_id, doc_len, index>>
  /\ UNCHANGED notIdx

\* one iteration of for doc_id, pub in enumerate(docs)
IndexDoc ==
  /\ ipc = "loop"
  /\ doc_id < Len(docs)
  /\ LET tokens == DocTokens(docs[doc_id + 1]) IN
     /\ doc_len' = Append(doc_len, DocLenOf(tokens))
     /\ index' = AddPostings(index, DistinctTokens(tokens), tokens, doc_id)
  /\ doc_id' = doc_id + 1
  /\ UNCHANGED <<publications, ipc, docs>>
  /\ UNCHANGED notIdx

\* for term, entry in index.items(): entry["df"] = len(entry["postings"]);
\* return {"docs": docs, "doc_len": doc_len, "index": index}
IndexDf ==
  /\ ipc = "loop"
  /\ doc_id >= Len(docs)
  /\ index' = [i \in 1..Len(index) |->
                 [k |-> index[i].k, v |-> [index[i].v EXCEPT !.df = DfOf(index[i].v)]]]
  /\ ipc' = "returned"
  /\ UNCHANGED <<publications, doc_id, docs, doc_len>>
  /\ UNCHANGED notIdx

\* the shapes of a raw record _normalize_record is given
NormAuthors ==
  { PyAbsent, PyNone, PyStr(<<>>), PyStr(<<" ">>), PyStr(<<" ", "A", "n", "n", " ", "N", "e", "t", " ">>), PyList(<<>>),
    PyList(<<PyStr(<<"A", "n", "n", " ", "N", "e", "t">>), PyStr(<<"B", "o", "b">>)>>),
    PyList(<<AuthorObj(<<"A", "n", "n", " ", "N", "e", "t">>, PyNone), AuthorObj(<<"B", "o", "b">>, PyStr(<<"u">>))>>),
    PyList(<<PyStr(<<"A", "n", "n", " ", "N", "e", "t">>), AuthorObj(<<"B", "o", "b">>, PyNone)>>),
    PyList(<<AuthorObj(<<"A", "n", "n", " ", "N", "e", "t">>, PyNone), PyStr(<<"B", "o", "b">>)>>) }

NormAbstracts == {PyAbsent, PyNone, PyStr(<<>>), PyStr(<<"N", "e", "t", "s", " ", "a", "n", "d", " ", "g", "r", "a", "p", "h", "s">>)}

NormDates == {PyAbsent, PyNone, PyStr(<<"2", "0", "2", "1">>)}

NormRecords ==
  { [title |-> PyStr(<<"G", "r", "a", "p", "h", "s">>), link |-> PyStr(<<"l">>), authors |-> a, abstract |-> ab,
     date |-> d, published_date |-> pd] :
      a \in NormAuthors, ab \in NormAbstracts, d \in NormDates,
      pd \in {PyAbsent, PyStr(<<"2", "0", "1", "9", "-", "0", "5", "-", "0", "1">>)} }

\* build_inverted_index called on one record of any shape
NormInit ==
  /\ publications \in {<<r>> : r \in NormRecords}
  /\ ipc = "called"
  /\ doc_id = 0
  /\ docs = <<>>
  /\ doc_len = <<>>
  /\ index = <<>>

IdxNext == IndexNormalize \/ IndexDoc \/ IndexDf

(***************************************************************************)
(* SearchEngine, backend/search.py.  A score is a fraction num/den of the  *)
(* fixed-point unit: num counts tf * idf in units of 1/Unit, den is the    *)
(* document length.                                                        *)
(***************************************************************************)
Unit == 10000

\* math.log(n) in units of 1/Unit, n up to 8
LnTable == <<0, 6931, 10986, 13863, 16094, 17918, 19459, 20794>>

\* math.log(a / b) in units of 1/Unit
LnScaled(a, b) == LnTable[a] - LnTable[b]

IdfInverted(n_docs, df) == LnScaled(df + 1, n_docs + 1)

IdfNoOffset(n_docs, df) == LnScaled(n_docs + 1, df + 1)

\* idf = math.log((n_docs + 1) / (df + 1)) + 1.0
Idf(n_docs, df) == LnScaled(n_docs + 1, df + 1) + Unit

Zero == [num |-> 0, den |-> 1]

\* a + b on fractions
ScoreAdd(a, b) ==
  IF a.den = b.den THEN [num |-> a.num + b.num, den |-> a.den]
  ELSE [num |-> a.num * b.den + b.num * a.den, den |-> a.den * b.den]

\* a < b on fractions
ScoreLess(a, b) == a.num * b.den < b.num * a.den

BelowFloorNever(score) == score.num < 0

\* score < 0.01
BelowFloor(score) == score.num * 100 < score.den * Unit

\* round(float(score), 2), in hundredths
Round2(score) == (200 * score.num + score.den * Unit) \div (2 * score.den * Unit)

\* search.py preprocess_text: " ".join of the kept, stemmed tokens
preprocess_query(text) == Join(preprocess_text(text))

\* tokens = preprocess_text(query).split()
QueryTokens(q) == Split(preprocess_query(q))

\* (float(tf) / max(1, length)) * idf of one posting
PostingScore(posting, idf, lens) ==
  LET id == StrToInt(posting.k)
      length == IF id < Len(lens) THEN lens[id + 1] ELSE 1
  IN [num |-> posting.v * idf, den |-> IF length > 1 THEN length ELSE 1]

\* for doc_id_str, tf in postings.items(): scores[doc_id] += (tf / length) * idf.
\* The documents scores has keep their place, the new ones follow in the
\* order of the postings.
AddPostingScores(sc, postings, idf, lens) ==
  LET At(id) == {p \in 1..Len(postings) : StrToInt(postings[p].k) = id}
      Added(id) == PostingScore(postings[CHOOSE p \in At(id) : TRUE], idf, lens)
      IsNew(posting) == ~DictHas(sc, StrToInt(posting.k))
      fresh == SelectSeq(postings, IsNew)
  IN [i \in 1..Len(sc) |->
        IF At(sc[i].k) # {} THEN [k |-> sc[i].k, v |-> ScoreAdd(sc[i].v, Added(sc[i].k))]
        ELSE sc[i]]
     \o [j \in 1..Len(fresh) |->
           [k |-> StrToInt(fresh[j].k),
            v |-> ScoreAdd(Zero, PostingScore(fresh[j], idf, lens))]]

RECURSIVE AddTermScores(_, _, _)
\* for term in tokens: skip a term without an entry, else add its postings
AddTermScores(sc, tokens, eng) ==
  IF tokens = <<>> THEN sc
  ELSE LET term == Head(tokens)
           entry == DictGet(eng.index, term)
           next == IF ~DictHas(eng.index, term) THEN sc
                   ELSE AddPostingScores(sc, entry.postings,
                                         Idf(Len(eng.publications), entry.df),
                                         eng.doc_len)
       IN AddTermScores(next, Tail(tokens), eng)

\* the scores dict of an index-mode search
ScoresOf(eng, q) == AddTermScores(<<>>, QueryTokens(q), eng)

\* sorted() and list.sort(): stable, elements that compare equal keep their
\* order; an element is placed behind those that precede it and the earlier
\* ones it does not precede
StableSort(seq, Before(_, _)) ==
  LET Rank(i) == Cardinality({j \in 1..Len(seq) :
                                \/ Before(seq[j], seq[i])
                                \/ j < i /\ ~Before(seq[i], seq[j])})
  IN [k \in 1..Len(seq) |-> seq[CHOOSE i \in 1..Len(seq) : Rank(i) = k - 1]]

HigherScore(a, b) == ScoreLess(b.v, a.v)

\* ranked = sorted(scores.items(), key=lambda x: x[1], reverse=True)
Ranked(sc) == StableSort(sc, HigherScore)

\* item.get(k, "")
ReturnField(v) == IF v.kind = "absent" THEN PyStr(<<>>) ELSE v

\* formatted_item = {k: item.get(k, "") for k in return_fields}
FormattedItem(pub, score) ==
  [title |-> ReturnField(pub.title), link |-> ReturnField(pub.link),
   authors |-> ReturnField(pub.authors),
   published_date |-> ReturnField(pub.published_date),
   abstract |-> ReturnField(pub.abstract), score |-> score]

\* for doc_id, score in ranked: skip a score below the floor, else append
Formatted(ranked, eng) ==
  LET AtFloor(r) == ~BelowFloor(r.v)
      kept == SelectSeq(ranked, AtFloor)
  IN [i \in 1..Len(kept) |->
        FormattedItem(eng.publications[kept[i].k + 1], Round2(kept[i].v))]

\* SearchEngine.search on an engine started with an index
search(eng, q) ==
  IF Strip(q) = <<>> THEN <<>>
  ELSE Formatted(Ranked(ScoresOf(eng, q)), eng)

\* load_inverted_index when the index file is missing: {}
NoIndexFile == [docs |-> <<>>, doc_len |-> <<>>, index |-> <<>>]

\* SearchEngine.__init__: index mode when the index file holds an index and
\* docs, else the records are normalized for the vector model
SearchEngine(pubs, index_data) ==
  IF index_data # NoIndexFile /\ index_data.index # <<>> /\ index_data.docs # <<>>
    THEN [use_index |-> TRUE, publications |-> index_data.docs,
          doc_len |-> index_data.doc_len, index |-> index_data.index]
    ELSE [use_index |-> FALSE,
          publications |-> [i \in 1..Len(pubs) |-> normalize_record(pubs[i])],
          doc_len |-> <<>>, index |-> <<>>]

\* the index files the engine is started with: up to two documents, two
\* terms, as build_inverted_index writes them (df = number of postings, a
\* posting per document that carries the term, doc_len at least the number
\* of tokens)
EngineSizes == {1, 2}
EngineTerms == <<<<"t", "1">>, <<"t", "2">>>>
EngineTfs == {0, 1, 2}
EngineLens == {1, 10, 300}

EngineDoc(id) ==
  [title |-> PyStr(<<"d">> \o IntToStr(id)), link |-> PyStr(<<"l">> \o IntToStr(id)),
   authors |-> PyList(<<>>), published_date |-> PyStr(<<>>), abstract |-> PyStr(<<>>)]

\* the postings of term t, documents in order
PostingsOf(t, n, tf) ==
  LET Carries(id) == tf[t, id] > 0
      ids == SelectSeq([i \in 1..n |-> i - 1], Carries)
  IN [p \in 1..Len(ids) |-> [k |-> PostingKey(ids[p]), v |-> tf[t, ids[p]]]]

IndexFile(n, tf, lens) ==
  LET Indexed(t) == PostingsOf(t, n, tf) # <<>>
      ts == SelectSeq([i \in 1..Len(EngineTerms) |-> i], Indexed)
  IN [docs |-> [i \in 1..n |-> EngineDoc(i - 1)],
      doc_len |-> lens,
      index |-> [e \in 1..Len(ts) |->
                   [k |-> EngineTerms[ts[e]],
                    v |-> [df |-> Len(PostingsOf(ts[e], n, tf)),
                           postings |-> PostingsOf(ts[e], n, tf)]]]]

IndexFiles ==
  UNION { { IndexFile(n, tf, lens) :
              tf \in [(1..Len(EngineTerms)) \X (0..(n - 1)) -> EngineTfs],
              lens \in {l \in [1..n -> EngineLens] : TRUE} } : n \in EngineSizes }

\* doc_len[i] is at least the number of tokens the index posts for document i
LengthsCoverTokens(f) ==
  \A i \in 1..Len(f.docs) :
    LET Posted(e) == {p \in 1..Len(f.index[e].v.postings) :
                        f.index[e].v.postings[p].k = PostingKey(i - 1)}
        TfIn(e) == IF Posted(e) = {} THEN 0
                   ELSE f.index[e].v.postings[CHOOSE p \in Posted(e) : TRUE].v
        RECURSIVE Total(_)
        Total(e) == IF e = 0 THEN 0 ELSE TfIn(e) + Total(e - 1)
    IN f.doc_len[i] >= Total(Len(f.index))

EngineQueries ==
  { <<>>, <<" ">>, <<"t", "1">>, <<"t", "2">>, <<"t", "1", " ", "t", "2">>, <<"t", "1", " ", "t", "1">>, <<"T", "1", "!">>, <<"t", "3">>, <<"t", "h", "e", " ", "t", "1">> }

NoEngine == [use_index |-> FALSE, publications |-> <<>>, doc_len |-> <<>>, index |-> <<>>]

\* no engine call and no request
SearchIdle ==
  /\ engine = NoEngine
  /\ publications_data = <<>>
  /\ request = None
  /\ spc = "idle"
  /\ query = None
  /\ scores = <<>>
  /\ hits = None
  /\ response = None
  /\ locals = None
  /\ served = <<>>

\* search is called on an engine started from an index file
EngineInit ==
  /\ engine \in {SearchEngine(<<>>, f) : f \in {g \in IndexFiles : LengthsCoverTokens(g)}}
  /\ engine.use_index
  /\ publications_data = <<>>
  /\ request = None
  /\ spc = "engine_called"
  /\ query \in EngineQueries
  /\ scores = <<>>
  /\ hits = None
  /\ response = None
  /\ locals = None
  /\ served = <<>>

\* SearchEngine.search(query)
EngineSearch ==
  /\ spc = "engine_called"
  /\ scores' = IF Strip(query) = <<>> THEN <<>> ELSE ScoresOf(engine, query)
  /\ hits' = search(engine, query)
  /\ spc' = "engine_returned"
  /\ UNCHANGED <<engine, publications_data, request, query, response, locals, served>>
  /\ UNCHANGED notSearch

EngineNext == EngineSearch

(***************************************************************************)
(* The retrieval request, backend/main.py search_publications              *)
(***************************************************************************)
\* the characters in code point order
CharOrder ==
  <<" ", "!", "'", ",", "-", ".">> \o DigitChars \o <<":">> \o UpperAlpha \o LowerAlpha
    \o <<"{", "|", "}">>

CharCode(c) == CHOOSE i \in 1..Len(CharOrder) : CharOrder[i] = c

\* a < b on strings
StrLess(a, b) ==
  \/ /\ Len(a) < Len(b)
     /\ \A i \in 1..Len(a) : a[i] = b[i]
  \/ \E i \in 1..(IF Len(a) < Len(b) THEN Len(a) ELSE Len(b)) :
       /\ \A j \in 1..(i - 1) : a[j] = b[j]
       /\ CharCode(a[i]) < CharCode(b[i])

RECURSIVE JoinSep(_, _)
\* sep.join(parts)
JoinSep(parts, sep) ==
  IF parts = <<>> THEN <<>>
  ELSE IF Len(parts) = 1 THEN parts[1]
  ELSE parts[1] \o sep \o JoinSep(Tail(parts), sep)

RECURSIVE SplitSep(_, _)
\* s.split(sep)
SplitSep(s, sep) ==
  LET at == {i \in 1..(Len(s) - Len(sep) + 1) :
               \A j \in 1..Len(sep) : s[i + j - 1] = sep[j]}
  IN IF at = {} THEN <<s>>
     ELSE LET i == CHOOSE k \in at : \A m \in at : k <= m
          IN <<SubSeq(s, 1, i - 1)>> \o SplitSep(SubSeq(s, i + Len(sep), Len(s)), sep)

\* seq[start:end]
PySlice(seq, start, end) ==
  LET Clip(i) == IF i < 0 THEN (IF Len(seq) + i < 0 THEN 0 ELSE Len(seq) + i)
                 ELSE IF i > Len(seq) THEN Len(seq) ELSE i
  IN SubSeq(seq, Clip(start) + 1, Clip(end))

\* a // b for b # 0
FloorDiv(a, b) == IF b > 0 THEN a \div b ELSE (0 - a) \div (0 - b)

\* a 19xx or 20xx year starts at position i of s
YearAt(s, i) ==
  /\ i + 3 <= Len(s)
  /\ \/ s[i] = "1" /\ s[i + 1] = "9"
     \/ s[i] = "2" /\ s[i + 1] = "0"
  /\ s[i + 2] \in Digits
  /\ s[i + 3] \in Digits

\* _extract_year: the first match of (19|20)\d{2}, 0 without one
extract_year(date_str) ==
  IF Falsy(date_str) THEN 0
  ELSE LET s == StrOf(date_str)
           at == {i \in 1..Len(s) : YearAt(s, i)}
       IN IF at = {} THEN 0
          ELSE LET i == CHOOSE k \in at : \A m \in at : k <= m
               IN StrToInt(SubSeq(s, i, i + 3))

\* name of one author in _matches_author
AuthorName(a) ==
  IF a.kind = "dict"
    THEN (IF "name" \in DOMAIN a THEN a.name.s ELSE <<>>)
    ELSE StrOf(a)

MatchesAuthorUnstripped(item, author_query) ==
  IF author_query = <<>> THEN TRUE
  ELSE /\ item.authors.kind = "list"
       /\ \E i \in 1..Len(item.authors.elems) :
            IsSubstring(Lower(author_query), Lower(AuthorName(item.authors.elems[i])))

\* _matches_author
matches_author(item, author_query) ==
  IF author_query = <<>> THEN TRUE
  ELSE LET aq == Lower(Strip(author_query)) IN
       /\ item.authors.kind = "list"
       /\ \E i \in 1..Len(item.authors.elems) :
            IsSubstring(aq, Lower(AuthorName(item.authors.elems[i])))

MatchesYearExclusive(item, year_from, year_to) ==
  IF year_from = 0 /\ year_to = 0 THEN TRUE
  ELSE LET year == extract_year(item.published_date) IN
       IF year_from # 0 /\ year <= year_from THEN FALSE
       ELSE IF year_to # 0 /\ year >= year_to THEN FALSE
       ELSE year # 0

\* _matches_year
matches_year(item, year_from, year_to) ==
  IF year_from = 0 /\ year_to = 0 THEN TRUE
  ELSE LET year == extract_year(item.published_date) IN
       IF year_from # 0 /\ year < year_from THEN FALSE
       ELSE IF year_to # 0 /\ year > year_to THEN FALSE
       ELSE year # 0

AuthorFilteredTail(rs, author) ==
  LET Keep(r) == matches_author(r, author)
      kept == SelectSeq(rs, Keep)
  IN IF kept = <<>> THEN kept ELSE Tail(kept)

\* [r for r in results if _matches_author(r, author)]
AuthorFiltered(rs, author) ==
  LET Keep(r) == matches_author(r, author) IN SelectSeq(rs, Keep)

\* [r for r in results if _matches_year(r, year_from, year_to)]
YearFiltered(rs, year_from, year_to) ==
  LET Keep(r) == matches_year(r, year_from, year_to) IN SelectSeq(rs, Keep)

\* the two filter statements of search_publications
Filtered(rs, req) ==
  LET by_author == IF Strip(req.author) # <<>> THEN AuthorFiltered(rs, req.author)
                   ELSE rs
  IN IF req.year_from # 0 \/ req.year_to # 0
       THEN YearFiltered(by_author, req.year_from, req.year_to)
       ELSE by_author

LaterYear(a, b) == extract_year(a.published_date) > extract_year(b.published_date)

\* (r.get("title") or "").lower()
TitleKey(r) == IF Falsy(r.title) THEN <<>> ELSE Lower(r.title.s)

EarlierTitle(a, b) == StrLess(TitleKey(a), TitleKey(b))

HigherItemScore(a, b) == a.score > b.score

SortedByScoreOnly(rs, sort) == StableSort(rs, HigherItemScore)

\* results.sort(...) by the sort mode
Sorted(rs, sort) ==
  IF sort = <<"d", "a", "t", "e">> THEN StableSort(rs, LaterYear)
  ELSE IF sort = <<"t", "i", "t", "l", "e">> THEN StableSort(rs, EarlierTitle)
  ELSE StableSort(rs, HigherItemScore)

\* the authors of an item of the listing that an empty query returns
BrowseAuthors(v) ==
  IF v.kind \in {"list", "absent"} THEN v
  ELSE IF Falsy(v) THEN PyList(<<>>)
  ELSE LET parts == SplitSep(StrOf(v), <<",", " ">>)
       IN PyList([i \in 1..Len(parts) |-> PyStr(parts[i])])

BrowseNothing(pubs) == <<>>

\* the items built from publications_data for an empty query: score 0.0
BrowseItems(pubs) ==
  [i \in 1..Len(pubs) |->
     FormattedItem([pubs[i] EXCEPT !.authors = BrowseAuthors(@)], 0)]

\* a key that also names the page and the size
CacheKeyWithPaging(req) ==
  JoinSep(<<Lower(Strip(req.query)), Lower(Strip(req.author)), IntToStr(req.page),
            IntToStr(req.size)>>, <<"|">>)

\* str(year or "")
YearText(year) == IF year = 0 THEN <<>> ELSE IntToStr(year)

\* the cache key of a request
CacheKey(req) ==
  JoinSep(<<Lower(Strip(req.query)), Lower(Strip(req.author)), YearText(req.year_from),
            YearText(req.year_to), Lower(Strip(req.sort))>>, <<"|">>)

\* _cache_get: the value and the cache it leaves
CacheLookup(cache, key, now) ==
  IF ~DictHas(cache, key) THEN [hit |-> FALSE, value |-> <<>>, cache |-> cache]
  ELSE IF Expired(DictGet(cache, key), now)
    THEN [hit |-> FALSE, value |-> <<>>, cache |-> DictPop(cache, key)]
    ELSE [hit |-> TRUE, value |-> DictGet(cache, key).value, cache |-> cache]

\* _cache_set: the cache it leaves
CacheStore(cache, key, value, now) ==
  LET kept == IF AtCapacity(cache) THEN DictPop(cache, OldestKey(cache)) ELSE cache
  IN DictSet(kept, key, [ts |-> now, value |-> value])

Publication(title, link, authors, published_date) ==
  [title |-> PyStr(title), link |-> PyStr(link), authors |-> authors,
   abstract |-> PyStr(<<"O", "n", " ", "g", "r", "a", "p", "h", "s">>), date |-> PyAbsent,
   published_date |-> PyStr(published_date)]

\* publications.json as the crawler wrote it
Corpus ==
  << Publication(<<"G", "r", "a", "p", "h", " ", "n", "e", "t", "s">>, <<"l", "1">>, PyList(<<AuthorObj(<<"J", "o", "h", "n", " ", "S", "m", "i", "t", "h">>, PyNone)>>),
                 <<"2", "0", "2", "1", "-", "0", "3", "-", "1", "0">>),
     Publication(<<"g", "r", "a", "p", "h", "s">>, <<"l", "2">>, PyList(<<AuthorObj(<<"J", "a", "n", "e", " ", "D", "o", "e">>, PyNone)>>),
                 <<"2", "0", "1", "9", "-", "0", "5", "-", "0", "1">>),
     Publication(<<"A", "l", "p", "h", "a", " ", "g", "r", "a", "p", "h", "s">>, <<"l", "3">>, PyList(<<>>), <<>>),
     Publication(<<"N", "e", "t", "s">>, <<"l", "4">>,
                 PyList(<<AuthorObj(<<"J", "a", "n", "e", " ", "D", "o", "e">>, PyNone), AuthorObj(<<"A", "n", "n", " ", "S", "M", "I", "T", "H", "S", "O", "N">>, PyStr(<<"u">>))>>),
                 <<"n", ".", "d", ".">>),
     Publication(<<"B", "e", "t", "a", " ", "g", "r", "a", "p", "h", "s">>, <<"l", "5">>, PyList(<<AuthorObj(<<"B", "o", " ", "L", "i">>, PyNone)>>), <<"2", "0", "2", "0">>),
     Publication(<<"O", "l", "d", " ", "n", "e", "t", "s">>, <<"l", "6">>, PyAbsent, <<"1", "8", "5", "0">>) >>

RequestQueries == {<<>>, <<" ">>, <<"g", "r", "a", "p", "h", "s">>, <<"G", "r", "a", "p", "h", "s", " ", "n", "e", "t", "s">>}
RequestAuthors == {<<>>, <<" ">>, <<"S", "m", "i", "t", "h">>, <<"S", "M", "I", "T", "H", " ">>, <<"d", "o", "e">>, <<"z", "z">>}
RequestYearsFrom == {0, 2020}
RequestYearsTo == {0, 2019, 2021}
RequestSorts == {<<"s", "c", "o", "r", "e">>, <<"d", "a", "t", "e">>, <<"t", "i", "t", "l", "e">>}
RequestPages == {1, 2}
RequestSizes == {2, 10}

\* page and size are plain int parameters: zero and negative values reach
\* the handler
AnyPages == {-1, 0, 1}
AnySizes == {-2, 0}

Requests ==
  [query : RequestQueries, page : RequestPages, size : RequestSizes,
   author : RequestAuthors, year_from : RequestYearsFrom, year_to : RequestYearsTo,
   sort : RequestSorts]
  \cup
  [query : {<<>>, <<"g", "r", "a", "p", "h", "s">>}, page : AnyPages, size : AnySizes,
   author : {<<>>}, year_from : {0}, year_to : {0}, sort : {<<"s", "c", "o", "r", "e">>}]

\* the indexer is run on publications.json, the backend is not started
RequestInit ==
  /\ publications = Corpus
  /\ ipc = "called"
  /\ doc_id = 0
  /\ docs = <<>>
  /\ doc_len = <<>>
  /\ index = <<>>
  /\ SearchIdle

\* startup of the backend: publications.json and the index file are loaded
\* and the engine is built from them
Startup ==
  /\ ipc = "returned"
  /\ spc = "idle"
  /\ publications_data' = publications
  /\ engine' = SearchEngine(publications,
                            [docs |-> docs, doc_len |-> doc_len, index |-> index])
  /\ spc' = "started"
  /\ UNCHANGED <<request, query, scores, hits, response, locals, served>>
  /\ UNCHANGED notSearch

PaginatedZeroBased(ordered, page_no, size) ==
  LET start_idx == page_no * size
      end_idx == start_idx + size
  IN IF size = 0 THEN [error |-> "integer division or modulo by zero"]
     ELSE [results |-> PySlice(ordered, start_idx, end_idx),
           total |-> Len(ordered), page |-> page_no, size |-> size,
           total_pages |-> FloorDiv(Len(ordered) + size - 1, size)]

\* the pagination statements and the payload of search_publications; the
\* floor division of the payload raises ZeroDivisionError for size 0, which
\* the except clause turns into an error payload
Paginated(ordered, page_no, size) ==
  LET start_idx == (page_no - 1) * size
      end_idx == start_idx + size
  IN IF size = 0 THEN [error |-> "integer division or modulo by zero"]
     ELSE [results |-> PySlice(ordered, start_idx, end_idx),
           total |-> Len(ordered), page |-> page_no, size |-> size,
           total_pages |-> FloorDiv(Len(ordered) + size - 1, size)]

\* search_publications, from the request to the payload
search_publications(req) ==
  \E blank \in {Strip(req.query) = <<>>} :
  \E key \in {CacheKey(req)} :
  \E looked \in {CacheLookup(search_cache, key, wall)} :
  LET called == ~blank /\ ~looked.hit
      \* without a filter, results is the very list the cache holds
      aliased == /\ ~blank
                 /\ Strip(req.author) = <<>>
                 /\ req.year_from = 0 /\ req.year_to = 0
  IN
  \E found \in {IF looked.hit THEN looked.value ELSE search(engine, req.query)} :
  \E unfiltered \in {IF blank THEN BrowseItems(publications_data) ELSE found} :
  \E filtered \in {Filtered(unfiltered, req)} :
  \E ordered \in {Sorted(filtered, req.sort)} :
  \E payload \in {Paginated(ordered, req.page, req.size)} :
  LET stored == IF looked.hit THEN looked.cache
                ELSE CacheStore(looked.cache, key, found, wall)
  IN
  /\ search_cache' =
       IF blank THEN search_cache
       ELSE IF aliased
         THEN DictSet(stored, key, [DictGet(stored, key) EXCEPT !.value = ordered])
         ELSE stored
  /\ response' = payload
  /\ locals' = [key |-> key, hit |-> ~blank /\ looked.hit, called |-> called,
                unfiltered |-> unfiltered, filtered |-> filtered, ordered |-> ordered]
  /\ served' = Append(served, [request |-> req, response |-> payload, key |-> key,
                               hit |-> ~blank /\ looked.hit, called |-> called,
                               at |-> wall, ordered |-> ordered])
  /\ query' = IF called THEN req.query ELSE query
  /\ scores' = IF called THEN ScoresOf(engine, req.query) ELSE scores
  /\ hits' = IF called THEN found ELSE hits
  /\ request' = req
  /\ spc' = "responded"
  /\ UNCHANGED <<engine, publications_data>>
  /\ UNCHANGED notRequest

\* the first request after startup
SearchPublications ==
  /\ spc = "started"
  /\ \E req \in Requests : search_publications(req)

\* pagination of a final ordered sequence of n results, named by position
MaxResults == 25
PageNumbers == 1..4
PageSizes == {1, 2, 3, 10}

PageInit ==
  /\ engine = NoEngine
  /\ publications_data = <<>>
  /\ query = None
  /\ scores = <<>>
  /\ hits = None
  /\ response = None
  /\ served = <<>>
  /\ request \in [page : PageNumbers, size : PageSizes]
  /\ locals \in {[ordered |-> [i \in 1..n |-> i]] : n \in 0..MaxResults}
  /\ spc = "sorted"

\* the statements of search_publications after the sort
Paginate ==
  /\ spc = "sorted"
  /\ response' = Paginated(locals.ordered, request.page, request.size)
  /\ spc' = "responded"
  /\ UNCHANGED <<engine, publications_data, request, query, scores, hits, locals, served>>
  /\ UNCHANGED notSearch

PageNext == Paginate

\* requests of one client session: two pages of one result list, a sort
\* parameter in another letter case, and text that holds the separator of
\* the cache key
MaxServed == 2

ServeRequest(query_text, page_no, size, author, sort) ==
  [query |-> query_text, page |-> page_no, size |-> size, author |-> author,
   year_from |-> 0, year_to |-> 0, sort |-> sort]

ServeRequests ==
  { ServeRequest(<<"g", "r", "a", "p", "h", "s">>, 1, 2, <<>>, <<"s", "c", "o", "r", "e">>),
    ServeRequest(<<"g", "r", "a", "p", "h", "s">>, 2, 2, <<>>, <<"s", "c", "o", "r", "e">>),
    ServeRequest(<<"g", "r", "a", "p", "h", "s">>, 1, 10, <<>>, <<"t", "i", "t", "l", "e">>),
    ServeRequest(<<"g", "r", "a", "p", "h", "s">>, 1, 10, <<>>, <<"T", "i", "t", "l", "e">>),
    ServeRequest(<<"n", "e", "t", "s", "|", "g", "r", "a", "p", "h", "s">>, 1, 10, <<"d", "o", "e">>, <<"s", "c", "o", "r", "e">>),
    ServeRequest(<<"n", "e", "t", "s">>, 1, 10, <<"g", "r", "a", "p", "h", "s", "|", "d", "o", "e">>, <<"s", "c", "o", "r", "e">>) }

\* a request of a running backend
Serve ==
  /\ spc \in {"started", "responded"}
  /\ Len(served) < MaxServed
  /\ \E req \in ServeRequests : search_publications(req)

ServeNext == IndexNormalize \/ IndexDoc \/ IndexDf \/ Startup \/ Serve \/ Tick

RequestNext == IndexNormalize \/ IndexDoc \/ IndexDf \/ Startup \/ SearchPublications

(***************************************************************************)
(* The author strategies of extract_detail_for_link, crawler/crawler.py    *)
(***************************************************************************)
PersonsLink == "https://pureportal.coventry.ac.uk/en/persons/ann-lee"
OtherPersonsLink == "https://pureportal.coventry.ac.uk/en/persons/bo-li"
OffSiteLink == "https://mirror.example.org/en/persons/ann-lee"

\* _is_person_profile_url: a coventry.ac.uk host or none, and a path
\* /en/persons/<slug>; "" and None are rejected
is_person_profile_url(href) == href \in {PersonsLink, OtherPersonsLink}

\* _looks_like_person_name: not a navigation word, a space or a comma, and
\* at least four letters
looks_like_person_name(text) == text \in {"Ann Lee", "Bo Li", "Lee, A."}

\* (o.get("name") or "").strip() is empty
NoName(o) == o.name \in {None, ""}

\* _uniq_authors: the first object of each (name, profile) pair, objects
\* without a name dropped, an empty profile turned into None
uniq_authors(objs) ==
  LET Norm(o) == [name |-> o.name, profile |-> IF o.profile = "" THEN None ELSE o.profile]
      First(i) == /\ ~NoName(objs[i])
                  /\ \A j \in 1..(i - 1) : Norm(objs[j]) # Norm(objs[i])
      kept == {i \in 1..Len(objs) : First(i)}
      Nth(k) == CHOOSE i \in kept : Cardinality({j \in kept : j < i}) = k - 1
  IN [k \in 1..Cardinality(kept) |-> Norm(objs[Nth(k)])]

\* _wrap_names_as_objs
wrap_names_as_objs(names) ==
  uniq_authors([i \in 1..Len(names) |-> [name |-> names[i], profile |-> None]])

\* the validity filter of Method 1
ValidAuthors(objs) ==
  LET Valid(a) == looks_like_person_name(a.name) /\ is_person_profile_url(a.profile)
  IN SelectSeq(objs, Valid)

Raises == [kind |-> "raise"]

Ann == [name |-> "Ann Lee", profile |-> PersonsLink]
AnnOffSite == [name |-> "Ann Lee", profile |-> OffSiteLink]
Bo == [name |-> "Bo Li", profile |-> OtherPersonsLink]

\* what _authors_from_header_anchors does on a page: raises, or returns the
\* anchors above the tab bar, their links joined with driver.current_url
HeaderOutcomes ==
  {Raises, PyList(<<>>), PyList(<<Ann>>), PyList(<<AnnOffSite>>), PyList(<<AnnOffSite, Bo>>)}

\* what _authors_from_subtitle_simple and _get_meta_list do: raise, or
\* return a _uniq_str list of names
SubtitleOutcomes == {Raises, PyList(<<>>), PyList(<<"Lee, A.">>)}

MetaOutcomes == {Raises, PyList(<<>>), PyList(<<"Ann Lee", "Bo Li">>)}

\* what _authors_from_bs4 does on the page source
Bs4Outcomes == {Raises, PyList(<<>>), PyList(<<Bo>>)}

NoDetail == [pc |-> "not_called", page |-> <<>>, author_objs |-> <<>>, ran |-> <<>>,
             authors |-> None]

\* extract_detail_for_link not called
DetailIdle == detail = NoDetail

\* author_objs = [] on a detail page
DetailInit ==
  detail \in {[NoDetail EXCEPT !.pc = "header", !.page = <<h, s, m, b>>] :
                h \in HeaderOutcomes, s \in SubtitleOutcomes, m \in MetaOutcomes,
                b \in Bs4Outcomes}

NoAuthorsYetAlways(author_objs) == TRUE

\* if not author_objs:
NoAuthorsYet(author_objs) == author_objs = <<>>

\* Method 1: the header anchors, then the validity filter; a raise leaves
\* author_objs as it is
HeaderAnchors ==
  /\ detail.pc = "header"
  /\ detail' = [detail EXCEPT
                  !.ran = Append(@, "header"),
                  !.author_objs = IF detail.page[1] = Raises THEN @
                                  ELSE ValidAuthors(detail.page[1].elems),
                  !.pc = "subtitle"]
  /\ UNCHANGED notDetail

\* Method 2: if not author_objs: the names of the subtitle line, wrapped
Subtitle ==
  /\ detail.pc = "subtitle"
  /\ detail' = IF NoAuthorsYet(detail.author_objs)
                 THEN [detail EXCEPT
                         !.ran = Append(@, "subtitle"),
                         !.author_objs = IF detail.page[2] = Raises THEN @
                                         ELSE wrap_names_as_objs(detail.page[2].elems),
                         !.pc = "meta"]
                 ELSE [detail EXCEPT !.pc = "meta"]
  /\ UNCHANGED notDetail

\* Method 3: if not author_objs: the citation_author meta tags, wrapped
Meta ==
  /\ detail.pc = "meta"
  /\ detail' = IF NoAuthorsYet(detail.author_objs)
                 THEN [detail EXCEPT
                         !.ran = Append(@, "meta"),
                         !.author_objs = IF detail.page[3] = Raises THEN @
                                         ELSE wrap_names_as_objs(detail.page[3].elems),
                         !.pc = "bs4"]
                 ELSE [detail EXCEPT !.pc = "bs4"]
  /\ UNCHANGED notDetail

\* if not author_objs: _authors_from_bs4 on the page source
Bs4 ==
  /\ detail.pc = "bs4"
  /\ detail' = IF NoAuthorsYet(detail.author_objs)
                 THEN [detail EXCEPT
                         !.ran = Append(@, "bs4"),
                         !.author_objs = IF detail.page[4] = Raises THEN @
                                         ELSE detail.page[4].elems,
                         !.pc = "return"]
                 ELSE [detail EXCEPT !.pc = "return"]
  /\ UNCHANGED notDetail

\* "authors": _uniq_authors(author_objs) of the returned record
DetailReturn ==
  /\ detail.pc = "return"
  /\ detail' = [detail EXCEPT !.authors = uniq_authors(detail.author_objs),
                              !.pc = "returned"]
  /\ UNCHANGED notDetail

DetailNext == HeaderAnchors \/ Subtitle \/ Meta \/ Bs4 \/ DetailReturn

\* main() not started: nothing listed, nothing submitted
CrawlIdle ==
  /\ listing = <<>>
  /\ workers_arg = 0
  /\ stage = "not_started"
  /\ batches = <<>>
  /\ task = <<>>
  /\ results = <<>>
  /\ consumed = {}
  /\ final_rows = <<>>

\* the challenge check of safe_get not entered
ChalIdle ==
  /\ page = {}
  /\ elapsed = 0
  /\ cfpc = "not_entered"
  /\ sampled = {}
  /\ cf_result = NoResult

\* every subsystem but the one a specification runs is idle
InitBackend == CacheInit /\ FetchInit /\ CrawlIdle /\ ListIdle /\ ChalIdle /\ IdxIdle /\ SearchIdle /\ DetailIdle

InitFetch == CacheInit /\ FetchInit /\ CrawlIdle /\ ListIdle /\ ChalIdle /\ IdxIdle /\ SearchIdle /\ DetailIdle

InitCrawl == CacheInit /\ FetchInit /\ CrawlInit /\ ListIdle /\ ChalIdle /\ IdxIdle /\ SearchIdle /\ DetailIdle

InitList == CacheInit /\ FetchInit /\ CrawlIdle /\ ListInit /\ ChalIdle /\ IdxIdle /\ SearchIdle /\ DetailIdle

InitChal == CacheInit /\ FetchInit /\ CrawlIdle /\ ListIdle /\ ChalInit /\ IdxIdle /\ SearchIdle /\ DetailIdle

InitIdx == CacheInit /\ FetchInit /\ CrawlIdle /\ ListIdle /\ ChalIdle /\ IdxInit /\ SearchIdle /\ DetailIdle

SpecCache == InitBackend /\ [][CacheNext]_vars

SpecCacheConc == InitBackend /\ [][CacheConcNext]_vars

SpecFetch == InitFetch /\ [][FetchNext]_vars

SpecCrawl == InitCrawl /\ [][CrawlNext]_vars

SpecList == InitList /\ [][ListNext]_vars

SpecChal == InitChal /\ [][ChalNext]_vars

SpecIdx == InitIdx /\ [][IdxNext]_vars

InitNorm == CacheInit /\ FetchInit /\ CrawlIdle /\ ListIdle /\ ChalIdle /\ NormInit /\ SearchIdle /\ DetailIdle

SpecNorm == InitNorm /\ [][IdxNext]_vars

InitEngine ==
  CacheInit /\ FetchInit /\ CrawlIdle /\ ListIdle /\ ChalIdle /\ IdxIdle /\ EngineInit /\ DetailIdle

SpecEngine == InitEngine /\ [][EngineNext]_vars

InitRequest == CacheInit /\ FetchInit /\ CrawlIdle /\ ListIdle /\ ChalIdle /\ RequestInit /\ DetailIdle

InitPage == CacheInit /\ FetchInit /\ CrawlIdle /\ ListIdle /\ ChalIdle /\ IdxIdle /\ PageInit /\ DetailIdle

SpecServe == InitRequest /\ [][ServeNext]_vars

InitDetail ==
  CacheInit /\ FetchInit /\ CrawlIdle /\ ListIdle /\ ChalIdle /\ IdxIdle /\ SearchIdle /\ DetailInit

SpecDetail == InitDetail /\ [][DetailNext]_vars

SpecPage == InitPage /\ [][PageNext]_vars

SpecRequest == InitRequest /\ [][RequestNext]_vars

(***************************************************************************)
(* Politeness and safe_get properties                                      *)
(***************************************************************************)
Hosts == {netloc(url) : url \in Urls}

\* the spacing a host is owed: the larger of CRAWL_DELAY and the
\* crawl-delay of its cached robots policy
HostDelay(host) ==
  LET declared == DictGet(robots_cache, host).delay IN
  IF declared > CRAWL_DELAY THEN declared ELSE CRAWL_DELAY

\* C3: a worker that has finished its delay-wait for a host and is about
\* to stamp the host's last-request time does so at least
\* max(CRAWL_DELAY, robots crawl-delay) after the previous stamp, and a
\* worker reading, waiting on or stamping that time holds the politeness lock.
PolitenessSpacing ==
  \A w \in FetchWorkers :
    /\ wpc[w] \in {"rcd_sleep", "rcd_store"} => robots_lock = w
    /\ (wpc[w] = "rcd_store" /\ DictHas(last_request, netloc(wloc[w].url))) =>
         mono - DictGet(last_request, netloc(wloc[w].url)) >= HostDelay(netloc(wloc[w].url))

\* a worker has slept out the robots crawl-delay behind an earlier request
\* to the same host and is about to stamp
SecondRequestWaited ==
  \E w \in FetchWorkers :
    /\ wpc[w] = "rcd_store"
    /\ DictHas(last_request, netloc(wloc[w].url))
    /\ wloc[w].wake = DictGet(last_request, netloc(wloc[w].url)) + 2
    /\ HostDelay(netloc(wloc[w].url)) = 2

\* C4: safe_get makes at most RETRIES+1 attempts, returns at the first
\* attempt that passes, and when every attempt fails it raises the error
\* of the last one.
SafeGetAttempts ==
  \A w \in FetchWorkers :
    /\ wpc[w] \notin {"idle", "loop"} => wloc[w].attempt \in 0..RETRIES
    /\ wloc[w].result.kind = "ok" =>
         wpc[w] = "idle" /\ wloc[w].result.attempt \in 0..RETRIES
    /\ wloc[w].result.kind \notin {None, "ok"} =>
         wpc[w] = "idle" /\ wloc[w].result.attempt = RETRIES

\* a call has failed RETRIES+1 times and raised
SafeGetExhausted ==
  \E w \in FetchWorkers :
    /\ wpc[w] = "idle"
    /\ wloc[w].result.kind \in RenderErrors
    /\ wloc[w].result.attempt = RETRIES


\* C5: when the robots rules disallow the URL the fetch fails on the first
\* attempt: no backoff wait is performed and no further attempt is made.
RobotsBlockNotRetried ==
  \A w \in FetchWorkers :
    /\ wloc[w].last_exc.kind = "robots" =>
         wpc[w] # "backoff" /\ wloc[w].last_exc.attempt = 0
    /\ wloc[w].result.kind = "robots" => wloc[w].result.attempt = 0

\* C10: the politeness lock is held only for the read/update of the maps:
\* no worker holds it during a robots.txt fetch or a politeness sleep.
LockNotHeldAcrossWaits ==
  \A w \in FetchWorkers :
    robots_lock = w => wpc[w] \notin {"rp_fetch", "rcd_sleep"}

\* C11: the robots policy of a host is created by the first request to the
\* host and fetched at most once: a fetch starts only while the host has no
\* cached policy, no two fetches overlap, the cache changes only when a
\* fetch ends, and a cached policy is never removed or replaced, so every
\* later allow and delay call reads the same policy.
RobotsFetchedOncePerHost ==
  [][/\ \A h \in Hosts :
          DictHas(robots_cache, h) =>
            /\ DictHas(robots_cache', h)
            /\ DictGet(robots_cache', h) = DictGet(robots_cache, h)
     /\ \A w \in FetchWorkers :
          (wpc[w] # "rp_fetch" /\ wpc'[w] = "rp_fetch") =>
            /\ ~DictHas(robots_cache, netloc(wloc[w].url))
            /\ \A v \in FetchWorkers \ {w} : wpc[v] # "rp_fetch"
     /\ robots_cache' # robots_cache =>
          \E w \in FetchWorkers :
            /\ wpc[w] = "rp_fetch"
            /\ wpc'[w] # "rp_fetch"
            /\ Len(robots_cache') = Len(robots_cache) + 1
  ]_vars

\* both workers made their first request to the host, one policy is
\* cached and both are at the allow check reading it
BothWorkersShareOnePolicy ==
  /\ Len(robots_cache) = 1
  /\ gets = 2
  /\ \A w \in FetchWorkers :
       wpc[w] = "allow_check" /\ wloc[w].attempt = 0 /\ wloc[w].rp_for = "allow"
  /\ last_request = <<>>

\* C12: when the robots.txt fetch of a host failed, the cached policy
\* allows every URL of the host and the delay owed to the host is the
\* configured CRAWL_DELAY alone; no fetch of the host is blocked by robots.
RobotsFetchFailureAllowsAll ==
  /\ \A url \in Urls :
       (DictHas(robots_cache, netloc(url))
          /\ DictGet(robots_cache, netloc(url)) = EmptyPolicy) =>
         /\ robots_allow(url)
         /\ CrawlDelayFor(url) = CRAWL_DELAY
  /\ \A w \in FetchWorkers :
       (wpc[w] = "except" /\ wloc[w].exc.kind = "robots") =>
         DictGet(robots_cache, netloc(wloc[w].url)) # EmptyPolicy

\* after a failed robots.txt fetch a worker has passed the allow check for
\* the URL the real robots.txt disallows and owes only CRAWL_DELAY
FailedRobotsFetchPassed ==
  \E w \in FetchWorkers :
    /\ wpc[w] = "request"
    /\ wloc[w].url = "h1/x"
    /\ DictGet(robots_cache, "h1") = EmptyPolicy
    /\ wloc[w].delay = CRAWL_DELAY

\* C37: a URL the robots rules disallow is never rendered: in every attempt
\* of safe_get, first or retried, a worker that is past the robots check,
\* pacing or about to call driver.get, holds a URL the cached policy of its
\* host allows.
DisallowedNeverRendered ==
  \A w \in FetchWorkers :
    /\ wpc[w] \in {"rcd_delay", "rcd_acquire", "rcd_sleep", "rcd_store", "request"} =>
         /\ DictHas(robots_cache, netloc(wloc[w].url))
         /\ robots_allow(wloc[w].url)
    /\ wloc[w].exc.kind \in RenderErrors => robots_allow(wloc[w].url)
    /\ wloc[w].result.kind \in RenderErrors \cup {"ok"} => robots_allow(wloc[w].url)

\* under the parsed robots.txt of h1 one worker's call for the disallowed
\* URL was refused in every attempt while the other is about to render an
\* allowed URL of the same host
DisallowedRefusedInEveryAttempt ==
  \E w \in FetchWorkers, v \in FetchWorkers :
    /\ DictHas(robots_cache, "h1")
    /\ DictGet(robots_cache, "h1") = RobotsTxt("h1")
    /\ wpc[w] = "idle"
    /\ wloc[w].url = "h1/x"
    /\ wloc[w].result = [kind |-> "robots", attempt |-> RETRIES]
    /\ wpc[v] = "request"
    /\ wloc[v].url = "h1/a"

(***************************************************************************)
(* Challenge wait properties                                               *)
(***************************************************************************)
\* C20: the challenge wait reports success only at a poll at which the
\* challenge markers are absent from the page body and title, and when it
\* reports failure the fetch attempt fails.
SuccessOnlyWithoutMarkers ==
  /\ cf_result.wait = "True" =>
       /\ sampled \cap {"cf_body", "cf_title"} = {}
       /\ cf_result.attempt = "continues"
  /\ cf_result.wait = "False" => cf_result.attempt = "failed"

\* C20, as amended: the wait reports success only at a poll that read
\* neither the source nor the title with "cloudflare" in it, or that read
\* a source without "just a moment" and "checking your browser" and then
\* found no challenge-form element; the attempt goes on only after such a
\* poll (or when no challenge was detected), a poll that saw the
\* interstitial or the form leads to another poll, and the wait reports
\* failure, which fails the attempt, once the timeout has passed without
\* such a poll or the renderer raised.
SuccessOnlyAtPassingPoll ==
  /\ cf_result.wait = "True" =>
       /\ \/ sampled \cap {"cf_body", "cf_title"} = {}
          \/ sampled \cap {"moment", "checking", "form"} = {}
       /\ cf_result.attempt = "continues"
  /\ cf_result.wait = "False" => cf_result.attempt = "failed"
  /\ cf_result.attempt = "continues" => cf_result.wait \in {"True", "not_called"}
  /\ cfpc = "interstitial" => sampled \cap {"cf_body", "cf_title"} # {}
  /\ cfpc = "form_check" =>
       /\ sampled \cap {"cf_body", "cf_title"} # {}
       /\ sampled \cap {"moment", "checking"} = {}
  /\ cfpc = "poll" => elapsed < CHALLENGE_TIMEOUT

\* after at least one poll that saw the challenge, the wait reported
\* success on a page that still has "cloudflare" in its source
SuccessWithCloudflareInSource ==
  /\ cf_result.wait = "True"
  /\ "cf_body" \in sampled
  /\ elapsed >= 3

(***************************************************************************)
(* Stage 2 and merge properties                                            *)
(***************************************************************************)

CountLink(rows, link) == Cardinality({i \in 1..Len(rows) : rows[i].link = link})

\* C1: the merged corpus holds no two records with the same link, and
\* the link of every listing stub appears in it exactly once.
MergedLinksUnique ==
  stage = "written" =>
    /\ \A i, j \in 1..Len(final_rows) :
         final_rows[i].link = final_rows[j].link => i = j
    /\ \A i \in 1..Len(listing) : CountLink(final_rows, listing[i].link) = 1

\* a corpus was written from several batches, a detail record having
\* overwritten the stub of its link
MergedSeveralBatches ==
  /\ stage = "written"
  /\ Len(batches) >= 2
  /\ Len(final_rows) >= 3
  /\ \E i \in 1..Len(final_rows) : final_rows[i].title = PageTitle(final_rows[i].link)

\* C2: whatever the per-item failures and whichever chunk and worker an
\* item went to, Stage 2 ends with exactly one result record per listing
\* item, matched by link.
Stage2OneRecordPerItem ==
  stage \in {"merge", "written"} =>
    /\ Len(results) = Len(listing)
    /\ \A i \in 1..Len(listing) : CountLink(results, listing[i].link) = 1

\* Stage 2 has ended over several batches with a failed item among the
\* extracted ones
Stage2EndedWithFailures ==
  /\ stage = "merge"
  /\ Len(batches) >= 2
  /\ \E b \in 1..Len(task) : task[b].errs # {}
  /\ \E j \in 1..Len(results) : results[j].authors # <<>>

\* C15: when the extraction of an item raises, the worker appends for it
\* the minimal record (the stub's title and link, no authors, no date, empty
\* abstract) and goes on with the rest of its chunk; the records already
\* appended for other items stay as they were, and an item that did not
\* fail has the record its extraction returned.
ItemFailureYieldsMinimalRecord ==
  /\ [](\A b \in 1..Len(task) :
          /\ Len(task[b].out) = task[b].i
          /\ task[b].status = "done" => task[b].i = Len(batches[b])
          /\ \A k \in 1..task[b].i :
               IF k \in task[b].errs
                 THEN task[b].out[k] =
                        [title |-> batches[b][k].title, link |-> batches[b][k].link,
                         authors |-> <<>>, published_date |-> None, abstract |-> ""]
                 ELSE task[b].out[k] \in DetailRecords(batches[b][k]))
  /\ [][\A b \in 1..Len(task) :
          Len(task') = Len(task) =>
            \A k \in 1..Len(task[b].out) : task'[b].out[k] = task[b].out[k]]_vars

\* a worker finished a chunk whose first item failed and whose second
\* item was extracted with its authors
WorkerWentOnAfterFailure ==
  \E b \in 1..Len(task) :
    /\ task[b].status = "done"
    /\ 1 \in task[b].errs
    /\ Len(task[b].out) >= 2
    /\ task[b].out[2].authors # <<>>

\* C16: for every listing link that has a Stage-2 record, the merged
\* record of the link is that Stage-2 record with all its fields, not the
\* two-field stub.
DetailWinsOverStub ==
  stage = "written" =>
    \A i \in 1..Len(listing) : \A r \in 1..Len(results) :
      results[r].link = listing[i].link =>
        \A j \in 1..Len(final_rows) :
          final_rows[j].link = listing[i].link =>
            /\ DOMAIN final_rows[j] = DOMAIN results[r]
            /\ final_rows[j] = results[r]

\* a corpus was written in which a record that kept the stub's title
\* carries the detail fields, next to one with the title of its page
MergedDetailWithStubTitle ==
  /\ stage = "written"
  /\ \E i, j \in 1..Len(final_rows) :
       /\ final_rows[i].title = StubTitle(final_rows[i].link)
       /\ DOMAIN final_rows[i] = {"title", "link", "authors", "published_date", "abstract"}
       /\ final_rows[j].title = PageTitle(final_rows[j].link)

\* C17: the merged corpus is in listing order, whatever the order in which
\* the worker batches completed (no Stage-2 record has a link outside the
\* listing, so nothing is appended after the listing links).
MergedInListingOrder ==
  stage = "written" =>
    /\ Len(final_rows) = Len(listing)
    /\ \A i \in 1..Len(listing) : final_rows[i].link = listing[i].link

\* a corpus was written after a later batch was collected before the
\* first one
MergedAfterOutOfOrderCompletion ==
  /\ stage = "written"
  /\ Len(batches) >= 2
  /\ results[1].link # listing[1].link

\* C18: only an empty listing ends the run without a corpus: a run whose
\* listing has an item does not end before publications.json is written,
\* whatever fails in Stage 2.
RunEndsWithoutCorpusOnlyIfEmpty ==
  stage \in {"no_listing", "crashed"} => Len(listing) = 0

\* the chunk size of chunk() for n >= 2
ChunkSize == MaxOf(2, CeilDiv(Len(listing), 2 * MaxOf(1, MinOf(workers_arg, Len(listing)))))

\* C19, as amended: Stage 2 partitions the items statically into
\* consecutive chunks that together are the listing: one chunk when the
\* capped worker count W is 1, else chunks of max(2, ceil(N / 2W)) items
\* (the last one possibly shorter), that is ceil(N / size) chunks; at most
\* W chunks are in progress at a time, each on a renderer session of its own.
ChunksOfHalfShare ==
  stage \in {"collect", "merge", "written", "crashed"} =>
    LET W == MaxOf(1, MinOf(workers_arg, Len(listing)))
        N == Len(listing)
    IN
    /\ \A b \in 1..Len(batches) : Len(batches[b]) >= 1
    /\ IF W = 1
         THEN batches = <<listing>>
         ELSE /\ Len(batches) = CeilDiv(N, ChunkSize)
              /\ \A b \in 1..Len(batches) : \A k \in 1..Len(batches[b]) :
                   batches[b][k] = listing[(b - 1) * ChunkSize + k]
              /\ \A b \in 1..(Len(batches) - 1) : Len(batches[b]) = ChunkSize
              /\ Len(batches[Len(batches)]) = N - (Len(batches) - 1) * ChunkSize
    /\ Len(task) = Len(batches)
    /\ Cardinality(Running) <= W
    /\ \A b \in 1..Len(task) :
         /\ task[b].status = "running" => task[b].driver = "open"
         /\ task[b].status = "done" => task[b].driver = "quit"

\* five items and two workers: three chunks, two of them in progress
MoreChunksThanWorkers ==
  /\ stage = "collect"
  /\ Len(listing) = 5
  /\ workers_arg = 2
  /\ Len(batches) = 3
  /\ Cardinality(Running) = 2

\* C19: Stage 2 partitions the items into exactly W chunks, W being the
\* configured worker count capped at the item count.
ChunksEqualWorkers ==
  stage \in {"collect", "merge", "written", "crashed"} =>
    Len(batches) = MaxOf(1, MinOf(workers_arg, Len(listing)))

(***************************************************************************)
(* Query cache properties                                                  *)
(***************************************************************************)
\* C6: after any sequence of one-at-a-time puts and gets, the cache
\* holds at most SEARCH_CACHE_MAX entries.
CacheBounded == Len(search_cache) <= SEARCH_CACHE_MAX

\* a put at capacity has evicted and the cache is full again
CacheFullAfterPut ==
  /\ cacheCall.fn = "set"
  /\ cacheCall.evicted # <<>>
  /\ Len(search_cache) = SEARCH_CACHE_MAX

MinTs(d) == CHOOSE m \in {d[i].v.ts : i \in 1..Len(d)} :
              \A i \in 1..Len(d) : d[i].v.ts >= m

\* C7: a put at capacity evicts exactly one entry, one with the smallest
\* insertion timestamp among the current entries, before it inserts; a put
\* below capacity evicts nothing.  Every other entry is left as it was.
PutEvictsOldestOnly ==
  [][\A key \in Keys, value \in Values : cache_set(key, value) =>
       LET old == DictKeys(search_cache)
           new == DictKeys(search_cache')
       IN
       /\ DictGet(search_cache', key) = [ts |-> wall, value |-> value]
       /\ IF Len(search_cache) >= SEARCH_CACHE_MAX
            THEN \E e \in old :
                   /\ DictGet(search_cache, e).ts = MinTs(search_cache)
                   /\ cacheCall'.evicted = <<e>>
                   /\ new = (old \ {e}) \cup {key}
                   /\ \A k \in old \ {e, key} :
                        DictGet(search_cache', k) = DictGet(search_cache, k)
            ELSE /\ cacheCall'.evicted = <<>>
                 /\ new = old \cup {key}
                 /\ \A k \in old \ {key} :
                      DictGet(search_cache', k) = DictGet(search_cache, k)
  ]_vars

\* a put at capacity has evicted while the surviving entries carry
\* different timestamps, the evicted key not being the one put
PutEvictedAmongDistinctTs ==
  /\ cacheCall.fn = "set"
  /\ cacheCall.evicted # <<>>
  /\ cacheCall.evicted[1] # cacheCall.key
  /\ \E i, j \in 1..Len(search_cache) : search_cache[i].v.ts < search_cache[j].v.ts

\* C8: a get returns the stored value while the entry's age is at most the
\* TTL; once the age exceeds the TTL it returns not-found and removes that
\* entry and no other.
GetHonoursTTL ==
  [][\A key \in Keys : cache_get(key) =>
       IF DictHas(search_cache, key)
         THEN LET e == DictGet(search_cache, key) IN
              IF wall - e.ts <= SEARCH_CACHE_TTL
                THEN /\ cacheCall'.ret = e.value
                     /\ search_cache' = search_cache
                ELSE /\ cacheCall'.ret = None
                     /\ ~DictHas(search_cache', key)
                     /\ Len(search_cache') = Len(search_cache) - 1
                     /\ \A k \in DictKeys(search_cache) \ {key} :
                          DictGet(search_cache', k) = DictGet(search_cache, k)
         ELSE /\ cacheCall'.ret = None
              /\ search_cache' = search_cache
  ]_vars

\* a get found its entry older than the TTL and removed it, other entries
\* remaining
GetExpiredRemoved ==
  /\ cacheCall.fn = "get"
  /\ cacheCall.evicted = <<cacheCall.key>>
  /\ cacheCall.ret = None
  /\ Len(search_cache) > 0


\* C9: cache reads and writes of concurrent requests are atomic with
\* respect to one another, so that in every interleaving the cache holds
\* at most SEARCH_CACHE_MAX keys.
CacheBoundedConcurrent == Cardinality(DictKeys(search_cache)) <= SEARCH_CACHE_MAX

(***************************************************************************)
(* Stage 1 properties                                                      *)
(***************************************************************************)
\* C13: whichever listing pages fail after their retries,
\* gather_all_listing_links still returns (a page failure never makes it
\* raise), it has visited every page index up to max_pages-1, and its
\* result holds an item for every link harvested from a page that loaded.
ListingSurvivesPageFailures ==
  /\ lpc = "raised" => portal = <<>>
  /\ lpc = "returned" =>
       /\ Len(portal) = max_pages
       /\ \A p \in 1..Len(portal) : portal[p].ok =>
            \A c \in 1..Len(portal[p].containers) :
              LET k == portal[p].containers[c] IN
              (k.title # "" /\ k.link # "") =>
                \E i \in 1..Len(uniq_rows) : uniq_rows[i].link = k.link

\* the first page failed, the second loaded and its link is in the result
LaterPageContributed ==
  /\ lpc = "returned"
  /\ max_pages = 2
  /\ ~portal[1].ok
  /\ portal[2].ok
  /\ Len(uniq_rows) >= 1

\* the first row of all_rows carrying the link
FirstSeen(link) ==
  all_rows[CHOOSE i \in 1..Len(all_rows) :
             /\ all_rows[i].link = link
             /\ \A j \in 1..(i - 1) : all_rows[j].link # link]

\* C14: a link harvested more than once is in the Stage-1 result exactly
\* once, with the title of its first-seen occurrence.
FirstSeenTitleKept ==
  lpc = "returned" =>
    \A r \in 1..Len(all_rows) :
      /\ Cardinality({i \in 1..Len(uniq_rows) : uniq_rows[i].link = all_rows[r].link}) = 1
      /\ \A i \in 1..Len(uniq_rows) :
           uniq_rows[i].link = all_rows[r].link =>
             uniq_rows[i].title = FirstSeen(all_rows[r].link).title

\* the doc ids a term's postings name
PostedDocIds(entry) == {StrToInt(entry.postings[p].k) : p \in 1..Len(entry.postings)}

\* C21: in the index build_inverted_index returns, the document frequency of
\* every term is the number of distinct document ids in its postings, and
\* every document length is at least 1, also for a document without tokens.
DfCountsPostedDocs ==
  ipc = "returned" =>
    /\ \A e \in 1..Len(index) : index[e].v.df = Cardinality(PostedDocIds(index[e].v))
    /\ \A i \in 1..Len(doc_len) : doc_len[i] >= 1

\* an index over a token-less document and a document that carries a term
\* twice, which leaves the term's document frequency at 1
IndexedEmptyDocAndRepeatedTerm ==
  /\ ipc = "returned"
  /\ \E i \in 1..Len(docs) : DocTokens(docs[i]) = <<>> /\ doc_len[i] = 1
  /\ \E e \in 1..Len(index) :
       /\ index[e].v.df = 1
       /\ index[e].v.postings[1].v >= 2

\* C22: docs and doc_len have the same length, doc_len[i] is max(1, number of
\* tokens of docs[i]); every posting's document id is a position of docs
\* (counted from 0) and its tf is the number of occurrences of the term among
\* the tokens of that document.
PostingsMatchDocs ==
  ipc = "returned" =>
    /\ Len(docs) = Len(doc_len)
    /\ \A i \in 1..Len(docs) :
         LET n == Len(DocTokens(docs[i])) IN
         doc_len[i] = IF n >= 1 THEN n ELSE 1
    /\ \A e \in 1..Len(index) : \A p \in 1..Len(index[e].v.postings) :
         LET id == StrToInt(index[e].v.postings[p].k) IN
         /\ id \in 0..(Len(docs) - 1)
         /\ index[e].v.postings[p].v = CountOf(DocTokens(docs[id + 1]), index[e].k)

\* two documents indexed, a term posted for the second with tf 2
PostedSecondDocTwice ==
  /\ ipc = "returned"
  /\ Len(docs) = 2
  /\ \E e \in 1..Len(index) : \E p \in 1..Len(index[e].v.postings) :
       /\ index[e].v.postings[p].k = <<"1">>
       /\ index[e].v.postings[p].v >= 2

\* C23: for every shape of authors (absent, a bare string, a list of strings,
\* a list of author objects, a list mixing these) normalization yields a list
\* whose every element is an object with name and profile; a missing abstract
\* or date becomes the empty string.
NormalizedAuthorsAreObjects ==
  ipc \in {"loop", "returned"} =>
    \A i \in 1..Len(docs) :
      /\ docs[i].authors.kind = "list"
      /\ \A a \in 1..Len(docs[i].authors.elems) :
           /\ docs[i].authors.elems[a].kind = "dict"
           /\ {"name", "profile"} \subseteq DOMAIN docs[i].authors.elems[a]
      /\ Falsy(publications[i].abstract) => docs[i].abstract = PyStr(<<>>)
      /\ (Falsy(publications[i].date) /\ Falsy(publications[i].published_date)) =>
           docs[i].published_date = PyStr(<<>>)

\* the tf the index posts for a term and a document id, 0 when there is none
PostedTf(eng, term, id) ==
  IF ~DictHas(eng.index, term) THEN 0
  ELSE LET ps == DictGet(eng.index, term).postings
           at == {p \in 1..Len(ps) : StrToInt(ps[p].k) = id}
       IN IF at = {} THEN 0 ELSE ps[CHOOSE p \in at : TRUE].v

\* the sum over the query terms of tf * (ln((N+1)/(df+1)) + 1), in 1/Unit
TfIdfSum(eng, q, id) ==
  LET toks == QueryTokens(q)
      Weight(i) ==
        IF PostedTf(eng, toks[i], id) = 0 THEN 0
        ELSE PostedTf(eng, toks[i], id) *
             (LnScaled(Len(eng.publications) + 1, DictGet(eng.index, toks[i]).df + 1) + Unit)
      RECURSIVE Sum(_)
      Sum(i) == IF i = 0 THEN 0 ELSE Weight(i) + Sum(i - 1)
  IN Sum(Len(toks))

\* the documents with a posting for at least one query term
Matching(eng, q) ==
  {id \in 0..(Len(eng.publications) - 1) :
     \E i \in 1..Len(QueryTokens(q)) : PostedTf(eng, QueryTokens(q)[i], id) > 0}

ScenarioIndex ==
  << [k |-> <<"t", "1">>, v |-> [df |-> 1, postings |-> << [k |-> <<"0">>, v |-> 2] >>]] >>

\* C25: in index mode the score of a document is the sum, over the query
\* terms that have a posting for it, of (tf / doc_len) * (ln((N+1)/(df+1)) + 1);
\* index t1 -> df 1, postings {0: 2}, doc_len [10], N = 1 and query "t1"
\* return document 0 with score 0.2.
ScoreIsTfIdfSum ==
  (spc = "engine_returned" /\ Strip(query) # <<>>) =>
    /\ \A id \in 0..(Len(engine.publications) - 1) :
         IF id \in Matching(engine, query)
           THEN /\ DictHas(scores, id)
                /\ DictGet(scores, id).num * engine.doc_len[id + 1]
                     = TfIdfSum(engine, query, id) * DictGet(scores, id).den
           ELSE ~DictHas(scores, id)
    /\ (engine.index = ScenarioIndex /\ engine.doc_len = <<10>> /\ query = <<"t", "1">>) =>
         /\ Len(hits) = 1
         /\ hits[1].link = engine.publications[1].link
         /\ hits[1].score = 20

\* the scenario: one document of length 10 carrying t1 twice, query "t1"
ScenarioScored ==
  /\ spc = "engine_returned"
  /\ engine.index = ScenarioIndex
  /\ engine.doc_len = <<10>>
  /\ query = <<"t", "1">>
  /\ hits # <<>>

\* C26: in index mode the result set is exactly the set of documents that
\* have a posting for at least one query term and whose accumulated score is
\* at least 0.01, each of them exactly once.
HitsAreQualifyingDocs ==
  (spc = "engine_returned" /\ Strip(query) # <<>>) =>
    LET qualifying == {id \in Matching(engine, query) :
                         TfIdfSum(engine, query, id) * 100 >= engine.doc_len[id + 1] * Unit}
    IN /\ {hits[i].link : i \in 1..Len(hits)}
            = {engine.publications[id + 1].link : id \in qualifying}
       /\ Len(hits) = Cardinality(qualifying)

\* one document is returned, another matches the query and stays below the floor
MatchBelowFloorLeftOut ==
  /\ spc = "engine_returned"
  /\ Len(hits) = 1
  /\ Cardinality(Matching(engine, query)) = 2

\* the engine with one more occurrence of a term in a document
MoreFrequent(eng, e, p) ==
  [eng EXCEPT !.index[e].v.postings[p].v = @ + 1]

\* C27: for a query containing a term, raising the term's frequency in a
\* document, with document length, document frequency and the other postings
\* fixed, never lowers the document's score.
ScoreMonotoneInTf ==
  (spc = "engine_returned" /\ Strip(query) # <<>>) =>
    \A e \in 1..Len(engine.index) : \A p \in 1..Len(engine.index[e].v.postings) :
      LET id == StrToInt(engine.index[e].v.postings[p].k) IN
      (\E i \in 1..Len(QueryTokens(query)) : QueryTokens(query)[i] = engine.index[e].k) =>
        ~ScoreLess(DictGet(ScoresOf(MoreFrequent(engine, e, p), query), id),
                   DictGet(scores, id))

\* a queried term whose higher frequency strictly raises a document's score
HigherTfScoresHigher ==
  /\ spc = "engine_returned"
  /\ Strip(query) # <<>>
  /\ \E e \in 1..Len(engine.index) : \E p \in 1..Len(engine.index[e].v.postings) :
       LET id == StrToInt(engine.index[e].v.postings[p].k) IN
       /\ DictHas(scores, id)
       /\ engine.index[e].v.df < Len(engine.publications)
       /\ ScoreLess(DictGet(scores, id),
                    DictGet(ScoresOf(MoreFrequent(engine, e, p), query), id))

\* C24 as stated: a retrieval request whose query text is empty or
\* whitespace-only returns an empty result set.
BlankQueryReturnsNothing ==
  (spc = "responded" /\ Strip(request.query) = <<>>) =>
    /\ "results" \in DOMAIN response
    /\ response.results = <<>>
    /\ response.total = 0

\* C24: SearchEngine.search returns an empty result set for an empty or
\* whitespace-only query; a retrieval request with such a query does not
\* call the engine and lists the whole corpus, every publication with score
\* 0.0, subject to the filters, the sort and the pagination.
BlankQueryListsCorpus ==
  (spc = "responded" /\ Strip(request.query) = <<>>) =>
    /\ search(engine, request.query) = <<>>
    /\ ~locals.called
    /\ Len(locals.unfiltered) = Len(publications_data)
    /\ \A i \in 1..Len(publications_data) :
         /\ locals.unfiltered[i].link = publications_data[i].link
         /\ locals.unfiltered[i].score = 0
    /\ response = Paginated(Sorted(Filtered(locals.unfiltered, request), request.sort),
                            request.page, request.size)

\* a whitespace-only query without filters answered with the six publications
BlankQueryAnswered ==
  /\ spc = "responded"
  /\ request.query = <<" ">>
  /\ request.author = <<>>
  /\ request.year_from = 0 /\ request.year_to = 0
  /\ response.total = 6

\* C28: applying the same author/year filter to the already filtered results
\* yields the same results as applying it once.
FilteringIsIdempotent ==
  spc = "responded" => Filtered(locals.filtered, request) = locals.filtered

\* an author filter and a year range that keep some results and drop others
BothFiltersCut ==
  /\ spc = "responded"
  /\ Strip(request.author) # <<>>
  /\ request.year_from # 0
  /\ request.year_to # 0
  /\ locals.filtered # <<>>
  /\ Len(locals.filtered) < Len(locals.unfiltered)

\* the links of a list of results
LinksOf(rs) == {rs[i].link.s : i \in 1..Len(rs)}

\* text, lower-cased, is a substring of the lower-cased name of an author of r
NamesAuthor(text, r) ==
  /\ r.authors.kind = "list"
  /\ \E i \in 1..Len(r.authors.elems) :
       IsSubstring(Lower(text), Lower(r.authors.elems[i].name.s))

\* C29 as stated: with a non-empty author filter a record is kept iff the
\* filter text, compared case-insensitively, is a substring of the name of
\* one of its authors; a record with no authors is dropped.
AuthorFilterKeepsLiteralMatches ==
  (spc = "responded" /\ request.author # <<>>
     /\ request.year_from = 0 /\ request.year_to = 0) =>
    \A i \in 1..Len(locals.unfiltered) :
      locals.unfiltered[i].link.s \in LinksOf(locals.filtered)
        <=> NamesAuthor(request.author, locals.unfiltered[i])

\* C29: with an author filter that is non-empty after trimming, a record is
\* kept iff the trimmed filter text, compared case-insensitively, is a
\* substring of the name of one of its authors ("Smith" keeps John Smith and
\* drops a record of Jane Doe alone), a record with no authors is dropped; a
\* filter that is empty or whitespace-only drops nothing.
AuthorFilterKeepsTrimmedMatches ==
  (spc = "responded" /\ request.author # <<>>) =>
    IF Strip(request.author) = <<>>
      THEN (request.year_from = 0 /\ request.year_to = 0) =>
             locals.filtered = locals.unfiltered
      ELSE /\ \A i \in 1..Len(locals.filtered) :
                NamesAuthor(Strip(request.author), locals.filtered[i])
           /\ (request.year_from = 0 /\ request.year_to = 0) =>
                \A i \in 1..Len(locals.unfiltered) :
                  NamesAuthor(Strip(request.author), locals.unfiltered[i]) =>
                    locals.unfiltered[i].link.s \in LinksOf(locals.filtered)
           /\ (request.author = <<"S", "m", "i", "t", "h">>
                 /\ request.year_from = 0 /\ request.year_to = 0) =>
                /\ <<"l", "2">> \notin LinksOf(locals.filtered)
                /\ <<"l", "1">> \in LinksOf(locals.unfiltered) =>
                     <<"l", "1">> \in LinksOf(locals.filtered)

\* the padded filter "SMITH " keeps John Smith's record; the record without
\* authors was among the results and is dropped
PaddedFilterKeptSmith ==
  /\ spc = "responded"
  /\ request.author = <<"S", "M", "I", "T", "H", " ">>
  /\ <<"l", "1">> \in LinksOf(locals.filtered)
  /\ <<"l", "3">> \in LinksOf(locals.unfiltered)
  /\ <<"l", "3">> \notin LinksOf(locals.filtered)

\* the year each publication of the corpus carries, 0 for none
YearOfLink(link) ==
  IF link = <<"l", "1">> THEN 2021
  ELSE IF link = <<"l", "2">> THEN 2019
  ELSE IF link = <<"l", "5">> THEN 2020
  ELSE 0

WithinBounds(y, req) ==
  /\ y # 0
  /\ req.year_from # 0 => y >= req.year_from
  /\ req.year_to # 0 => y <= req.year_to

\* C30: with year_from or year_to set, a record passes the year filter iff a
\* year can be extracted from its published_date and lies within the set
\* bounds, both inclusive; a record without an extractable year fails,
\* whichever bound is set.
YearFilterKeepsYearsInBounds ==
  (spc = "responded" /\ (request.year_from # 0 \/ request.year_to # 0)) =>
    /\ \A i \in 1..Len(locals.filtered) :
         WithinBounds(YearOfLink(locals.filtered[i].link.s), request)
    /\ Strip(request.author) = <<>> =>
         \A i \in 1..Len(locals.unfiltered) :
           WithinBounds(YearOfLink(locals.unfiltered[i].link.s), request) =>
             locals.unfiltered[i].link.s \in LinksOf(locals.filtered)

\* the whole corpus filtered to 2020..2021: the records of 2020 and 2021 pass
YearRangeKeptBounds ==
  /\ spc = "responded"
  /\ request.year_from = 2020
  /\ request.year_to = 2021
  /\ Len(locals.unfiltered) = 6
  /\ LinksOf(locals.filtered) = {<<"l", "1">>, <<"l", "5">>}

CountIn(seq, x) == Cardinality({i \in 1..Len(seq) : seq[i] = x})

\* a is a rearrangement of b
IsPermutation(a, b) ==
  /\ Len(a) = Len(b)
  /\ \A i \in 1..Len(a) : CountIn(a, a[i]) = CountIn(b, a[i])

\* seq is ordered as the sort mode asks
OrderedByMode(seq, sort) ==
  \A i \in 1..Len(seq) : \A j \in (i + 1)..Len(seq) :
    IF sort = <<"d", "a", "t", "e">>
      THEN extract_year(seq[i].published_date) >= extract_year(seq[j].published_date)
    ELSE IF sort = <<"t", "i", "t", "l", "e">>
      THEN ~StrLess(TitleKey(seq[j]), TitleKey(seq[i]))
    ELSE seq[i].score >= seq[j].score

\* C31: the sequence that is paginated is a permutation of the filtered
\* results, in non-increasing publication year for sort mode date, in
\* non-decreasing lower-cased title for mode title and in non-increasing
\* score for mode score
SortModeOrdersFilteredResults ==
  spc = "responded" =>
    /\ IsPermutation(locals.ordered, locals.filtered)
    /\ OrderedByMode(locals.ordered, request.sort)
    /\ "results" \in DOMAIN response =>
         response.results = PySlice(locals.ordered, (request.page - 1) * request.size,
                                    request.page * request.size)

\* a filter cut the results and the date or title mode reordered what was left
SortReorderedFilteredResults ==
  /\ spc = "responded"
  /\ request.sort \in {<<"d", "a", "t", "e">>, <<"t", "i", "t", "l", "e">>}
  /\ Len(locals.filtered) < Len(locals.unfiltered)
  /\ Len(locals.filtered) >= 2
  /\ locals.ordered # locals.filtered

\* the items of seq at the offsets lo .. hi - 1
AtOffsets(seq, lo, hi) == [k \in 1..(IF hi > lo THEN hi - lo ELSE 0) |-> seq[lo + k]]

\* ceil(n / s) for s >= 1
CeilOf(n, s) == CHOOSE t \in 0..n : t * s >= n /\ (t = 0 \/ (t - 1) * s < n)

\* C32: for page p >= 1 and size s >= 1 over a final ordered sequence of n
\* results the payload holds the items at offsets (p-1)*s .. min(p*s, n)-1
\* in order, total = n and total_pages = ceil(n/s), and the pages
\* 1..total_pages together hold every result exactly once
PageIsOffsetSlice ==
  (spc = "responded" /\ request.page >= 1 /\ request.size >= 1) =>
    LET ordered == locals.ordered
        n == Len(ordered)
        p == request.page
        s == request.size
        Page(q) == Paginated(ordered, q, s).results
    IN /\ response.results = AtOffsets(ordered, (p - 1) * s, IF p * s < n THEN p * s ELSE n)
       /\ response.total = n
       /\ response.total_pages = CeilOf(n, s)
       /\ \A i \in 1..n :
            Cardinality({pos \in (1..response.total_pages) \X (1..s) :
                           /\ pos[2] <= Len(Page(pos[1]))
                           /\ (pos[1] - 1) * s + pos[2] = i
                           /\ Page(pos[1])[pos[2]] = ordered[i]}) = 1
       /\ \A q \in 1..response.total_pages : \A k \in 1..Len(Page(q)) :
            (q - 1) * s + k <= n

\* page 2 of size 10 over 25 results: offsets 10 to 19 and three pages
SecondPageOfTwentyFive ==
  /\ spc = "responded"
  /\ Len(locals.ordered) = 25
  /\ request.page = 2 /\ request.size = 10
  /\ response.results = [k \in 1..10 |-> locals.ordered[10 + k]]
  /\ response.total_pages = 3

\* C33: for a well-formed query and any integer page and size, zero and
\* negative values included, the request is answered with a result payload,
\* never with an error payload
PagingNeverFails ==
  spc = "responded" => "error" \notin DOMAIN response

\* the two requests differ in page or size and in nothing else
SameButPaging(a, b) ==
  /\ [a EXCEPT !.page = 0, !.size = 0] = [b EXCEPT !.page = 0, !.size = 0]
  /\ <<a.page, a.size>> # <<b.page, b.size>>

\* the last two requests answered
Former == served[Len(served) - 1]

Latter == served[Len(served)]

\* C34: the cache key does not depend on page or size: when a request has
\* stored its result list and the next request, within the TTL, is the same
\* but for page/size, that request is served from the entry the first one
\* stored, the engine is not called again, and each payload is its own page
\* slice of the same full result sequence
PagesShareOneCacheEntry ==
  ( /\ Len(served) >= 2
    /\ SameButPaging(Former.request, Latter.request)
    /\ Former.called
    /\ Latter.at - Former.at <= SEARCH_CACHE_TTL ) =>
      /\ Latter.key = Former.key
      /\ Latter.hit /\ ~Latter.called
      /\ DictHas(search_cache, Former.key)
      /\ DictGet(search_cache, Former.key).ts = Former.at
      /\ Latter.ordered = Former.ordered
      /\ Former.response =
           Paginated(Former.ordered, Former.request.page, Former.request.size)
      /\ Latter.response =
           Paginated(Former.ordered, Latter.request.page, Latter.request.size)

\* page 2 is asked for a full TTL after page 1 and comes from the entry
\* page 1 stored
SecondPageFromCache ==
  /\ Len(served) = 2
  /\ SameButPaging(Former.request, Latter.request)
  /\ Former.called /\ Latter.hit
  /\ Latter.at - Former.at = SEARCH_CACHE_TTL
  /\ Former.request.page = 1 /\ Latter.request.page = 2
  /\ Len(Former.response.results) = 2 /\ Len(Latter.response.results) = 2
  /\ Former.response.results # Latter.response.results

\* the payload of a request that finds nothing in the cache
ResponseOnMiss(req) ==
  LET found == IF Strip(req.query) = <<>> THEN BrowseItems(publications_data)
               ELSE search(engine, req.query)
  IN Paginated(Sorted(Filtered(found, req), req.sort), req.page, req.size)

\* C39: whatever requests came before, the payload of a request served from
\* a cache hit is the payload the same request gets on a cache miss
CacheIsTransparent ==
  \A i \in 1..Len(served) :
    served[i].hit => served[i].response = ResponseOnMiss(served[i].request)

\* what the cache key is built from, after case/whitespace normalization
NormalizedTuple(req) ==
  <<Lower(Strip(req.query)), Lower(Strip(req.author)), req.year_from, req.year_to,
    Lower(Strip(req.sort))>>

\* C40: two requests whose (query, author, year_from, year_to, sort) differ
\* after case/whitespace normalization never have the same cache key, so a
\* hit returns results computed for the same normalized query text
CacheKeysSeparateRequests ==
  \A i, j \in 1..Len(served) :
    NormalizedTuple(served[i].request) # NormalizedTuple(served[j].request) =>
      served[i].key # served[j].key

\* the entries of d that are also in e, in d's order
KeptEntries(d, e) == SelectSeq(d, LAMBDA x : DictHas(e, x.k))

\* C35: a _cache_get never refreshes an entry: every entry it leaves in the
\* cache keeps its timestamp, its value and its place, so expiry and the
\* choice of the oldest entry depend on insertion times only
GetLeavesTimestamps ==
  [][CacheGetStep =>
       /\ \A key \in DictKeys(search_cache') :
            /\ DictHas(search_cache, key)
            /\ DictGet(search_cache', key).ts = DictGet(search_cache, key).ts
       /\ search_cache' = KeptEntries(search_cache, search_cache')]_vars

\* an entry was read after the clock had moved on and still carries the
\* time of its insertion
ReadEntryKeptInsertionTime ==
  /\ cacheCall.fn = "get"
  /\ cacheCall.ret # None
  /\ DictHas(search_cache, cacheCall.key)
  /\ DictGet(search_cache, cacheCall.key).ts < wall
  /\ Len(search_cache) >= 2

StrategyOrder == <<"header", "subtitle", "meta", "bs4">>

\* what strategy k yields on the page: nothing when it raises
Yield(k) ==
  LET o == detail.page[k] IN
  IF o = Raises THEN <<>>
  ELSE IF k = 1 THEN ValidAuthors(o.elems)
  ELSE IF k = 4 THEN o.elems
  ELSE wrap_names_as_objs(o.elems)

\* C36: the authors of a detail record are what the first strategy, in the
\* order header anchors, subtitle, citation metadata, static markup, that
\* yields a non-empty list yields; a strategy runs only if every earlier one
\* yielded nothing or raised; if all four yield nothing the authors are empty
AuthorsFromFirstStrategy ==
  /\ \A i \in 1..Len(detail.ran) :
       /\ detail.ran[i] = StrategyOrder[i]
       /\ \A j \in 1..(i - 1) : Yield(j) = <<>>
  /\ detail.pc = "returned" =>
       IF \A k \in 1..4 : Yield(k) = <<>>
         THEN detail.authors = <<>>
         ELSE LET first == CHOOSE k \in 1..4 :
                             Yield(k) # <<>> /\ \A j \in 1..(k - 1) : Yield(j) = <<>>
              IN /\ detail.authors = Yield(first)
                 /\ Len(detail.ran) = first

\* the header anchors raised, the subtitle held no names, and the record
\* carries the authors of the citation metadata; the static pass did not run
AuthorsFromThirdStrategy ==
  /\ detail.pc = "returned"
  /\ detail.page[1] = Raises
  /\ detail.page[2] = PyList(<<>>)
  /\ detail.page[4] # Raises /\ detail.page[4] # PyList(<<>>)
  /\ detail.ran = <<"header", "subtitle", "meta">>
  /\ Len(detail.authors) = 2

OpenSessions == {b \in 1..Len(task) : task[b].driver = "open"}

\* C38: during Stage 2 at most W renderer sessions are open at any moment,
\* W the worker count capped at the item count, however many chunks there
\* are, and every session a worker opened is closed once the worker's chunk
\* has ended, also when items of the chunk failed.
SessionsBoundedAndClosed ==
  /\ Cardinality(OpenSessions) <= MaxOf(1, MinOf(workers_arg, Len(listing)))
  /\ \A b \in 1..Len(task) :
       task[b].status \in {"done", "failed"} => task[b].driver # "open"

====
